---- MODULE Spec2Model ----
(***************************************************************************)
(* Model of the API self-healing agent: the bounded healing loop           *)
(* (ApiSelfHealingAgent.heal) and the tool dispatcher (AgentTools) with    *)
(* the collaborators it calls (PostmanService, HttpExecutor,               *)
(* ParallelService, MemoryService).                                        *)
(***************************************************************************)
EXTENDS Integers, Sequences, FiniteSets, TLC

(***************************************************************************)
(* Bounds of the model.                                                    *)
(***************************************************************************)
\* iteration cap handed to the constructor (its default is 20)
maxIterations == 2

\* largest number of tool_use blocks in one policy turn
MaxCalls == 2

\* processes that run connect() against the same Redis
NumProcs == 3

Procs == 1..NumProcs

\* last value of Date.now() (the first is 1)
MaxClock == 2

\* largest k a lookup asks for
MaxK == 2

(***************************************************************************)
(* JavaScript values.  Every value is a record with a type tag t.          *)
(* A string is either plain text (t = "string") or the JSON text of a      *)
(* value (t = "jsonstring", v the value it parses to).                     *)
(***************************************************************************)
Undefined == [t |-> "undefined"]

Null == [t |-> "null"]

Bool(b) == [t |-> "boolean", v |-> b]

Num(n) == [t |-> "number", v |-> n]

Str(s) == [t |-> "string", v |-> s]

Obj(f) == [t |-> "object", v |-> f]

Arr(s) == [t |-> "array", v |-> s]

\* typeof x === 'string'
IsString(x) == x.t \in {"string", "jsonstring"}

\* property read o.f : undefined when o has no such property
Get(o, f) == IF o.t = "object" /\ f \in DOMAIN o.v THEN o.v[f] ELSE Undefined

\* JavaScript truthiness
Truthy(x) ==
  CASE x.t = "undefined" -> FALSE
    [] x.t = "null" -> FALSE
    [] x.t = "boolean" -> x.v
    [] x.t = "number" -> x.v # 0
    [] x.t = "string" -> x.v # ""
    [] OTHER -> TRUE

\* a || b
OrElse(a, b) == IF Truthy(a) THEN a ELSE b

\* JSON.stringify(o): properties whose value is undefined are dropped
Stringify(o) ==
  IF o.t = "undefined" THEN Undefined
  ELSE IF o.t = "object"
  THEN [t |-> "jsonstring",
        v |-> Obj([f \in {g \in DOMAIN o.v : o.v[g] # Undefined} |-> o.v[f]])]
  ELSE [t |-> "jsonstring", v |-> o]

(***************************************************************************)
(* Outcome of a call: it returns val, or it throws an error whose message  *)
(* is val.  calls lists the collaborator requests made on the way.         *)
(***************************************************************************)
Ok(v, c) == [threw |-> FALSE, val |-> v, calls |-> c]

Throw(m, c) == [threw |-> TRUE, val |-> m, calls |-> c]

\* a parse that accepts any text
JsonParse_Lenient(x) == Ok(IF x.t = "jsonstring" THEN x.v ELSE x, <<>>)

\* JSON.parse(x): the argument is first converted to a string
JsonParse(x) ==
  CASE x.t = "jsonstring" -> Ok(x.v, <<>>)
    [] x.t = "number" -> Ok(x, <<>>)
    [] OTHER -> Throw("SyntaxError", <<>>)

(***************************************************************************)
(* Tool catalogue: required fields and declared types.                     *)
(***************************************************************************)
toolDefinitions ==
  [check_memory |->
     [properties |-> [endpoint |-> "string", error_message |-> "string",
                      status_code |-> "number"],
      required |-> {"endpoint"}],
   fetch_postman_request |->
     [properties |-> [collection_id |-> "string", request_id |-> "string"],
      required |-> {"collection_id", "request_id"}],
   execute_api_request |->
     [properties |-> [request_json |-> "string"],
      required |-> {"request_json"}],
   search_api_docs |->
     [properties |-> [query |-> "string", api_endpoint |-> "string"],
      required |-> {"query"}],
   update_postman_request |->
     [properties |-> [collection_id |-> "string", request_id |-> "string",
                      updated_request_json |-> "string"],
      required |-> {"collection_id", "request_id", "updated_request_json"}],
   store_fix |->
     [properties |-> [endpoint |-> "string", method |-> "string",
                      status_code |-> "number", error_message |-> "string",
                      fix_description |-> "string", fix_type |-> "string",
                      corrected_request_json |-> "string"],
      required |-> {"endpoint", "method", "status_code", "error_message",
                    "fix_description", "fix_type", "corrected_request_json"}]]

Catalogue == DOMAIN toolDefinitions

\* the JSON-schema type of a value
TypeOf(x) == IF IsString(x) THEN "string" ELSE x.t

\* does the input satisfy the declared schema of the tool
SchemaValid(name, input) ==
  LET def == toolDefinitions[name] IN
    /\ input.t = "object"
    /\ \A f \in def.required : f \in DOMAIN input.v /\ input.v[f] # Undefined
    /\ \A f \in DOMAIN input.v \cap DOMAIN def.properties :
         input.v[f] = Undefined \/ TypeOf(input.v[f]) = def.properties[f]

(***************************************************************************)
(* Objects handed around.                                                  *)
(***************************************************************************)
\* a Postman request item
PostmanRequest ==
  Obj([id |-> Str("req-1"), name |-> Str("Create post"),
       request |-> Obj([method |-> Str("POST"), url |-> Str("https://api/posts")])])

\* an object without a request property
BareObject == Obj([name |-> Str("Create post")])

\* the answer of GET /collections/:id : a collection holding that request
Collection ==
  Obj([collection |-> Obj([info |-> Obj([name |-> Str("API")]),
                           item |-> Arr(<<PostmanRequest>>)])])

\* a collection that does not hold the request
OtherCollection ==
  Obj([collection |->
         Obj([info |-> Obj([name |-> Str("API")]),
              item |-> Arr(<<Obj([PostmanRequest.v EXCEPT !.id = Str("req-2")])>>)])])

\* a request object with another HTTP method
GetRequest ==
  Obj([request |-> Obj([method |-> Str("GET"), url |-> Str("https://api/posts")])])

(***************************************************************************)
(* The fix memory: signature text, embedding, Redis hash of a fix.         *)
(***************************************************************************)
\* `${x}` : the text of a value inside a template literal
Text(x) ==
  CASE x.t = "string" -> x.v
    [] x.t = "number" -> ToString(x.v)
    [] x.t = "undefined" -> "undefined"
    [] x.t = "null" -> "null"
    [] x.t = "jsonstring" -> "{json}"
    [] OTHER -> "[object Object]"

\* `${endpoint} ${statusCode} ${errorMessage}`
buildSearchText(endpoint, statusCode, errorMessage) ==
  Text(endpoint) \o " " \o Text(statusCode) \o " " \o Text(errorMessage)

\* the embedder, a fixed function of the text: the vectors of the texts used
\* here lie on one line, at these positions (in tenths)
Embedding(text) ==
  CASE text = "https://api/posts 400 Bad Request" -> 0
    [] text = "https://api/posts 0 " -> 2
    [] text = "https://api/posts 400 Bad Request: invalid JSON" -> 3
    [] text = "https://api/users 404 Not Found" -> 9
    [] OTHER -> 20

\* DISTANCE_METRIC L2 between two embeddings (in tenths)
L2Distance(a, b) == IF a >= b THEN a - b ELSE b - a

\* Number.prototype.toString on a number, the identity on a string
NumberToString(x) == IF x.t = "number" THEN Str(ToString(x.v)) ELSE x

\* the value of each decimal digit
DigitOf ==
  [c \in {"0", "1", "2", "3", "4", "5", "6", "7", "8", "9"} |->
     CASE c = "0" -> 0 [] c = "1" -> 1 [] c = "2" -> 2 [] c = "3" -> 3
       [] c = "4" -> 4 [] c = "5" -> 5 [] c = "6" -> 6 [] c = "7" -> 7
       [] c = "8" -> 8 [] OTHER -> 9]

RECURSIVE Decimal(_)
\* the number written by a run of digits
Decimal(s) ==
  IF Len(s) = 0 THEN 0
  ELSE 10 * Decimal(SubSeq(s, 1, Len(s) - 1)) + DigitOf[SubSeq(s, Len(s), Len(s))]

RECURSIVE LeadingDigits(_)
\* the digits a text starts with
LeadingDigits(s) ==
  IF Len(s) = 0 \/ SubSeq(s, 1, 1) \notin DOMAIN DigitOf THEN ""
  ELSE SubSeq(s, 1, 1) \o LeadingDigits(SubSeq(s, 2, Len(s)))

\* parseInt of a text: the number its leading digits write, NaN without any
parseInt(x) ==
  IF x.t = "string" /\ LeadingDigits(x.v) # ""
  THEN Num(Decimal(LeadingDigits(x.v)))
  ELSE [t |-> "number", v |-> "NaN"]

\* the fields storeFix hands to HSET
HashOf(entry, embedding) ==
  [endpoint |-> entry.endpoint,
   method |-> entry.method,
   statusCode |-> NumberToString(entry.statusCode),
   errorMessage |-> entry.errorMessage,
   fixDescription |-> entry.fixDescription,
   fixType |-> entry.fixType,
   fixChanges |-> Stringify(entry.fixChanges),
   correctedRequest |-> Stringify(entry.correctedRequest),
   timestamp |-> entry.timestamp,
   embedding |-> embedding]

\* HSET key fields: the hash at key is written, the others stay
hSet(store, key, fields) ==
  [k \in DOMAIN store \cup {key} |-> IF k = key THEN fields ELSE store[k]]

(***************************************************************************)
(* Environment of one tool call: what each collaborator answers.           *)
(*   get, put  : do the Postman GET and PUT succeed                        *)
(*   collection: the collection Postman holds, as GET answers it            *)
(*   http      : status of the HTTP response, 0 if there is none           *)
(*   message   : the message of the network error                          *)
(*   docs      : "results", "none" or "fail"                               *)
(*   embed, search, write, info : do the embedder, FT.SEARCH, HSET and     *)
(*               FT.INFO succeed                                           *)
(*   cache     : the Redis hashes under the fix: prefix, by key            *)
(*   rank      : the order in which the index ranks and hands back its     *)
(*               documents, a sequence of the keys of cache                *)
(*   now       : the value of Date.now()                                   *)
(***************************************************************************)
EnvOk ==
  [get |-> TRUE, collection |-> Collection, put |-> TRUE, http |-> 200,
   message |-> "Network Error",
   docs |-> "results", embed |-> TRUE, search |-> TRUE, write |-> TRUE,
   info |-> TRUE, cache |-> <<>>, rank |-> <<>>, now |-> 2]

\* a fix stored by an earlier session
StoredFix ==
  [endpoint |-> Str("https://api/posts"), method |-> Str("POST"),
   statusCode |-> Num(400), errorMessage |-> Str("Bad Request"),
   fixDescription |-> Str("renamed field"), fixType |-> Str("body"),
   fixChanges |-> PostmanRequest, correctedRequest |-> PostmanRequest,
   timestamp |-> Str("1")]

\* the memory holding that fix alone
OneFix ==
  hSet(<<>>, 1, HashOf(StoredFix, Embedding("https://api/posts 400 Bad Request")))

HttpStatuses == {0, 200, 400}

\* messages of an error that carries no response
NetworkErrors == {"Network Error", "Parse Error"}

\* the answers that make a difference to each tool: a collaborator that is
\* not reached keeps its value of EnvOk
Envs(name) ==
  CASE name = "check_memory" ->
         {[EnvOk EXCEPT !.embed = FALSE], [EnvOk EXCEPT !.cache = OneFix, !.rank = <<1>>]}
           \cup {[EnvOk EXCEPT !.search = s, !.info = i] :
                   s \in BOOLEAN, i \in BOOLEAN}
    [] name = "fetch_postman_request" ->
         {[EnvOk EXCEPT !.get = FALSE], [EnvOk EXCEPT !.collection = OtherCollection], EnvOk}
    [] name = "execute_api_request" ->
         {[EnvOk EXCEPT !.http = h] : h \in HttpStatuses \ {0}}
           \cup {[EnvOk EXCEPT !.http = 0, !.message = m] : m \in NetworkErrors}
    [] name = "search_api_docs" ->
         {[EnvOk EXCEPT !.docs = d] : d \in {"results", "none", "fail"}}
    [] name = "update_postman_request" ->
         {[EnvOk EXCEPT !.get = FALSE], [EnvOk EXCEPT !.collection = OtherCollection],
          [EnvOk EXCEPT !.put = FALSE], EnvOk}
    [] name = "store_fix" ->
         {[EnvOk EXCEPT !.embed = FALSE], [EnvOk EXCEPT !.write = FALSE],
          [EnvOk EXCEPT !.info = FALSE], EnvOk}
    [] OTHER -> {EnvOk}

(***************************************************************************)
(* PostmanService                                                          *)
(***************************************************************************)
\* a === b
StrictEquals(a, b) == a.t = b.t /\ a = b

\* s.split('-').length
SegmentCount(s) == 1 + Cardinality({i \in 1..Len(s) : SubSeq(s, i, i) = "-"})

\* s.split('-').slice(1).join('-'): the text after the first dash
DropFirstSegment(s) ==
  LET dashes == {i \in 1..Len(s) : SubSeq(s, i, i) = "-"}
      first == CHOOSE i \in dashes : \A j \in dashes : i <= j
  IN IF dashes = {} THEN "" ELSE SubSeq(s, first + 1, Len(s))

\* the id with its workspace prefix stripped when it has six segments
Normalized(requestId) ==
  IF requestId.t = "string" /\ SegmentCount(requestId.v) = 6
  THEN Str(DropFirstSegment(requestId.v))
  ELSE requestId

getCollection(collectionId, env) ==
  IF IsString(collectionId) /\ env.get
  THEN Ok(env.collection, <<"postman.get">>)
  ELSE Throw("Request failed with status code 404", <<"postman.get">>)

\* item.item && Array.isArray(item.item)
IsFolder(item) == Get(item, "item").t = "array"

\* findRequest: the first item, depth-first, whose id is targetId, or null
RECURSIVE findRequest(_, _)
findRequest(items, targetId) ==
  LET F[i \in 0..Len(items.v)] ==
        IF i = 0 THEN Null
        ELSE IF F[i - 1] # Null THEN F[i - 1]
        ELSE IF StrictEquals(Get(items.v[i], "id"), targetId) THEN items.v[i]
        ELSE IF IsFolder(items.v[i])
        THEN findRequest(Get(items.v[i], "item"), targetId)
        ELSE Null
  IN F[Len(items.v)]

getRequest(collectionId, requestId, env) ==
  LET c == getCollection(collectionId, env) IN
    IF c.threw THEN c
    ELSE LET items == Get(Get(c.val, "collection"), "item")
             result == findRequest(items, requestId)
         IN IF result # Null THEN Ok(result, c.calls)
            ELSE IF ~IsString(requestId)
            THEN Throw("TypeError: requestId.split is not a function", c.calls)
            ELSE IF Normalized(requestId) # requestId
            THEN Ok(findRequest(items, Normalized(requestId)), c.calls)
            ELSE Ok(Null, c.calls)

\* { ...a, ...b }: the properties of a, then the own properties of b over
\* them; a value that is not an object contributes none
Spread(a, b) ==
  IF b.t # "object" THEN a
  ELSE Obj([f \in DOMAIN a.v \cup DOMAIN b.v |->
              IF f \in DOMAIN b.v THEN b.v[f] ELSE a.v[f]])

\* the outcome of an update, with the collection the PUT leaves in Postman
Put(r, collection) ==
  [threw |-> r.threw, val |-> r.val, calls |-> r.calls, collection |-> collection]

\* every item whose id is targetId merged, not the first alone
RECURSIVE updateInPlace_EveryMatch(_, _, _)
updateInPlace_EveryMatch(items, targetId, updatedRequest) ==
  LET sub(i) == updateInPlace_EveryMatch(Get(items.v[i], "item"), targetId,
                                         updatedRequest)
      hit(i) == \/ StrictEquals(Get(items.v[i], "id"), targetId)
                \/ IsFolder(items.v[i]) /\ sub(i).updated
  IN [updated |-> \E i \in 1..Len(items.v) : hit(i),
      items |-> Arr([i \in 1..Len(items.v) |->
                       IF StrictEquals(Get(items.v[i], "id"), targetId)
                       THEN Spread(items.v[i], updatedRequest)
                       ELSE IF IsFolder(items.v[i])
                       THEN Obj([items.v[i].v EXCEPT !.item = sub(i).items])
                       ELSE items.v[i]])]

\* updateInPlace: items[i] = { ...items[i], ...updatedRequest } on the first
\* item, depth-first, whose id is targetId; the value returned and the items
\* as they are afterwards
RECURSIVE updateInPlace(_, _, _)
updateInPlace(items, targetId, updatedRequest) ==
  LET F[i \in 0..Len(items.v)] ==
        IF i = 0 THEN [updated |-> FALSE, items |-> items]
        ELSE IF F[i - 1].updated THEN F[i - 1]
        ELSE IF StrictEquals(Get(items.v[i], "id"), targetId)
        THEN [updated |-> TRUE,
              items |-> Arr([items.v EXCEPT ![i] = Spread(@, updatedRequest)])]
        ELSE IF IsFolder(items.v[i])
        THEN LET sub == updateInPlace(Get(items.v[i], "item"), targetId,
                                      updatedRequest)
             IN [updated |-> sub.updated,
                 items |-> Arr([items.v EXCEPT
                                  ![i] = Obj([@.v EXCEPT !.item = sub.items])])]
        ELSE F[i - 1]
  IN F[Len(items.v)]

\* the collection with its items replaced
WithItems(collection, items) == Obj([collection.v EXCEPT !.item = items])

\* the PUT sent before the target is looked for
updateRequest_PutFirst(collectionId, requestId, updatedRequest, env) ==
  LET c == getCollection(collectionId, env) IN
    IF c.threw THEN c
    ELSE IF ~IsString(requestId)
         THEN Throw("TypeError: requestId.split is not a function", c.calls)
    ELSE LET collection == Get(c.val, "collection")
             r == updateInPlace(Get(collection, "item"), Normalized(requestId),
                                updatedRequest)
         IN IF ~env.put
            THEN Throw("Request failed", c.calls \o <<"postman.put">>)
            ELSE IF ~r.updated
            THEN Throw("Request not found in collection", c.calls \o <<"postman.put">>)
            ELSE Put(Ok(Undefined, c.calls \o <<"postman.put">>),
                     WithItems(collection, r.items))

updateRequest(collectionId, requestId, updatedRequest, env) ==
  LET c == getCollection(collectionId, env) IN
    IF c.threw THEN c
    ELSE IF ~IsString(requestId)
         THEN Throw("TypeError: requestId.split is not a function", c.calls)
    ELSE LET collection == Get(c.val, "collection")
             r == updateInPlace(Get(collection, "item"), Normalized(requestId),
                                updatedRequest)
         IN IF ~r.updated
            THEN Throw("Request not found in collection", c.calls)
            ELSE IF ~env.put
            THEN Throw("Request failed", c.calls \o <<"postman.put">>)
            ELSE Put(Ok(Undefined, c.calls \o <<"postman.put">>),
                     WithItems(collection, r.items))

(***************************************************************************)
(* HttpExecutor                                                            *)
(***************************************************************************)
formatKeywords ==
  {"invalid", "malformed", "format", "syntax", "parse", "validation", "schema"}

\* the lower-case letter of each upper-case letter
LowerOf ==
  [A |-> "a", B |-> "b", C |-> "c", D |-> "d", E |-> "e", F |-> "f", G |-> "g",
   H |-> "h", I |-> "i", J |-> "j", K |-> "k", L |-> "l", M |-> "m", N |-> "n",
   O |-> "o", P |-> "p", Q |-> "q", R |-> "r", S |-> "s", T |-> "t", U |-> "u",
   V |-> "v", W |-> "w", X |-> "x", Y |-> "y", Z |-> "z"]

toLowerCaseChar(c) == IF c \in DOMAIN LowerOf THEN LowerOf[c] ELSE c

RECURSIVE toLowerCase(_)
\* String.prototype.toLowerCase
toLowerCase(s) ==
  IF Len(s) = 0 THEN ""
  ELSE toLowerCaseChar(SubSeq(s, 1, 1)) \o toLowerCase(SubSeq(s, 2, Len(s)))

\* String.prototype.includes
includes(s, keyword) ==
  \E i \in 1..(Len(s) - Len(keyword) + 1) :
    SubSeq(s, i, i + Len(keyword) - 1) = keyword

\* the classifier without its status rule
isFormatError_KeywordOnly(statusCode, message) ==
  LET errorMessage == toLowerCase(message) IN
    \E keyword \in formatKeywords : includes(errorMessage, keyword)

\* the classifier: the status rule first, then the keyword test on the
\* lower-cased message of the error
isFormatError(statusCode, message) ==
  IF statusCode = 400 \/ statusCode = 422 THEN TRUE
  ELSE LET errorMessage == toLowerCase(message) IN
         \E keyword \in formatKeywords : includes(errorMessage, keyword)

convertPostmanToAxios(postmanRequest) ==
  IF ~Truthy(Get(postmanRequest, "request"))
  THEN Throw("Invalid request format: missing \"request\" property", <<>>)
  ELSE IF ~Truthy(Get(Get(postmanRequest, "request"), "url"))
  THEN Throw("Invalid request format: missing \"url\" property in request", <<>>)
  ELSE Ok(Get(postmanRequest, "request"), <<>>)

\* the conversion made before the try block: its error leaves the method
executePostmanRequest_ConvertOutsideTry(postmanRequest, env) ==
  LET config == convertPostmanToAxios(postmanRequest) IN
    IF config.threw THEN config
    ELSE IF env.http = 0
    THEN Ok(Obj([success |-> Bool(FALSE), statusCode |-> Num(0),
                 statusText |-> Str("Unknown Error"), data |-> Undefined,
                 error |-> Str(env.message),
                 isFormatError |-> Bool(isFormatError(0, env.message))]),
            <<"http">>)
    ELSE Ok(Obj([success |-> Bool(TRUE), statusCode |-> Num(env.http),
                 statusText |-> Str("status"), data |-> Str("body"),
                 isFormatError |-> Bool(FALSE)]),
            <<"http">>)

executePostmanRequest(postmanRequest, env) ==
  LET config == convertPostmanToAxios(postmanRequest) IN
    IF config.threw
    THEN Ok(Obj([success |-> Bool(FALSE), statusCode |-> Num(0),
                 statusText |-> Str("Unknown Error"), data |-> Null,
                 error |-> Str(config.val), isFormatError |-> Bool(FALSE)]),
            <<>>)
    ELSE IF env.http = 0
    THEN Ok(Obj([success |-> Bool(FALSE), statusCode |-> Num(0),
                 statusText |-> Str("Unknown Error"), data |-> Undefined,
                 error |-> Str(env.message),
                 isFormatError |-> Bool(isFormatError(0, env.message))]),
            <<"http">>)
    ELSE Ok(Obj([success |-> Bool(TRUE), statusCode |-> Num(env.http),
                 statusText |-> Str("status"), data |-> Str("body"),
                 isFormatError |-> Bool(FALSE)]),
            <<"http">>)

(***************************************************************************)
(* ParallelService                                                         *)
(***************************************************************************)
searchDocs(query, apiBaseUrl, env) ==
  CASE env.docs = "fail" ->
         Throw("Parallel AI search failed", <<"parallel.search">>)
    [] env.docs = "none" ->
         Ok(Str("No documentation found for this query."), <<"parallel.search">>)
    [] OTHER -> Ok(Str("[1] excerpt"), <<"parallel.search">>)

(***************************************************************************)
(* MemoryService                                                           *)
(***************************************************************************)
generateEmbedding(text, env) ==
  IF env.embed THEN Ok(Embedding(text), <<"embedder">>)
  ELSE Throw("Embedding model not initialized", <<"embedder">>)

\* position of key in the ranking of the index
RankOf(key, env) == CHOOSE i \in 1..Len(env.rank) : env.rank[i] = key

\* the search without the KNN limit: every document, as the index ranks them
ftSearch_All(k, queryEmbedding, env) ==
  LET score(key) == L2Distance(env.cache[key].embedding, queryEmbedding)
  IN [i \in 1..Len(env.rank) |->
        [id |-> env.rank[i],
         value |-> env.cache[env.rank[i]],
         score |-> score(env.rank[i])]]

\* FT.SEARCH *=>[KNN k @embedding $BLOB AS score]: the k documents nearest to
\* the query vector, ties broken and documents ordered as the index ranks them
ftSearch(k, queryEmbedding, env) ==
  LET score(key) == L2Distance(env.cache[key].embedding, queryEmbedding)
      before(a, b) ==
        \/ score(a) < score(b)
        \/ score(a) = score(b) /\ RankOf(a, env) < RankOf(b, env)
      nearest(key) ==
        Cardinality({o \in DOMAIN env.cache : before(o, key)}) < k
      keys == SelectSeq(env.rank, nearest)
  IN [i \in 1..Len(keys) |->
        [id |-> keys[i],
         value |-> env.cache[keys[i]],
         score |-> score(keys[i])]]

\* an element of similarFixes whose correctedRequest is left as stored
SimilarFix_Unparsed(doc) ==
  Obj([id |-> Num(doc.id),
       endpoint |-> doc.value.endpoint,
       method |-> doc.value.method,
       statusCode |-> parseInt(doc.value.statusCode),
       errorMessage |-> doc.value.errorMessage,
       fixApplied |-> Obj([type |-> doc.value.fixType,
                           description |-> doc.value.fixDescription,
                           changes |-> JsonParse(doc.value.fixChanges).val]),
       correctedRequest |-> doc.value.correctedRequest,
       score |-> Num(doc.score),
       timestamp |-> doc.value.timestamp])

\* one element of similarFixes
SimilarFix(doc) ==
  Obj([id |-> Num(doc.id),
       endpoint |-> doc.value.endpoint,
       method |-> doc.value.method,
       statusCode |-> parseInt(doc.value.statusCode),
       errorMessage |-> doc.value.errorMessage,
       fixApplied |-> Obj([type |-> doc.value.fixType,
                           description |-> doc.value.fixDescription,
                           changes |-> JsonParse(doc.value.fixChanges).val]),
       correctedRequest |-> JsonParse(doc.value.correctedRequest).val,
       score |-> Num(doc.score),
       timestamp |-> doc.value.timestamp])

\* the threshold test left out
WithinDistance_All(doc, maxDistance) == TRUE

\* if (score <= maxDistance)
WithinDistance(doc, maxDistance) == doc.score <= maxDistance

findSimilarFixes(endpoint, errorMessage, statusCode, k, maxDistance, env) ==
  LET e == generateEmbedding(buildSearchText(endpoint, statusCode, errorMessage), env) IN
    IF e.threw THEN e
    ELSE IF ~env.search THEN Ok(<<>>, e.calls \o <<"redis.ftSearch">>)
    ELSE LET documents == ftSearch(k, e.val, env)
             kept == SelectSeq(documents, LAMBDA doc : WithinDistance(doc, maxDistance))
         IN IF \E i \in 1..Len(kept) :
                 \/ JsonParse(kept[i].value.fixChanges).threw
                 \/ JsonParse(kept[i].value.correctedRequest).threw
            THEN Ok(<<>>, e.calls \o <<"redis.ftSearch">>)
            ELSE Ok([i \in 1..Len(kept) |-> SimilarFix(kept[i])],
                    e.calls \o <<"redis.ftSearch">>)

\* the count taken one too high
getStoredFixCount_OneMore(env) ==
  IF env.info THEN Ok(Num(Cardinality(DOMAIN env.cache) + 1), <<"redis.ftInfo">>)
  ELSE Ok(Num(1), <<"redis.ftInfo">>)

\* parseInt(info.numDocs || '0')
getStoredFixCount(env) ==
  IF env.info THEN Ok(Num(Cardinality(DOMAIN env.cache)), <<"redis.ftInfo">>)
  ELSE Ok(Num(0), <<"redis.ftInfo">>)

\* the outcome of a call that writes, with the hashes it leaves in Redis
Stored(r, store) ==
  [threw |-> r.threw, val |-> r.val, calls |-> r.calls, store |-> store]

\* `${this.keyPrefix}${Date.now()}`
FixKey(env) == env.now

\* storeFix that takes a failed write for done
storeFix_SwallowsWriteError(entry, env) ==
  LET e == generateEmbedding(buildSearchText(entry.endpoint, entry.statusCode, entry.errorMessage), env) IN
    Stored(Ok(Undefined, e.calls \o <<"redis.hSet">>), env.cache)

storeFix(entry, env) ==
  LET e == generateEmbedding(buildSearchText(entry.endpoint, entry.statusCode, entry.errorMessage), env) IN
    IF e.threw THEN e
    ELSE IF entry.statusCode = Undefined
         THEN Throw("TypeError: cannot read properties of undefined", e.calls)
    ELSE IF \E f \in DOMAIN HashOf(entry, e.val) \ {"embedding"} :
              HashOf(entry, e.val)[f] = Undefined
         THEN Throw("TypeError: Invalid argument type", e.calls)
    ELSE IF ~env.write THEN Throw("Redis write failed", e.calls \o <<"redis.hSet">>)
    ELSE Stored(Ok(Undefined, e.calls \o <<"redis.hSet">>),
                hSet(env.cache, FixKey(env), HashOf(entry, e.val)))

\* checkMemory asks for the 3 nearest fixes within distance 0.5 (in tenths)
MaxDistanceTenths == 5

(***************************************************************************)
(* AgentTools: every tool body is one try block whose catch turns the      *)
(* error into a payload.                                                   *)
(***************************************************************************)
\* catch (error) { return JSON.stringify({error: message}) }
ErrorPayload(r) == Ok(Stringify(Obj([error |-> Str(r.val)])), r.calls)

\* catch (error) { throw error }
ErrorPayloadNoSuccess_Rethrow(r) == r

\* catch (error) { return JSON.stringify({error: message, success: false}) }
ErrorPayloadNoSuccess(r) ==
  Ok(Stringify(Obj([error |-> Str(r.val), success |-> Bool(FALSE)])), r.calls)

\* catch (error) { return JSON.stringify({error: message, found: false}) }
ErrorPayloadNotFound(r) ==
  Ok(Stringify(Obj([error |-> Str(r.val), found |-> Bool(FALSE)])), r.calls)

fetchPostmanRequest(collectionId, requestId, env) ==
  LET r == getRequest(collectionId, requestId, env) IN
    IF r.threw THEN ErrorPayload(r)
    ELSE IF ~Truthy(r.val)
    THEN Ok(Stringify(Obj([error |-> Str("Request not found"),
                           collection_id |-> collectionId,
                           request_id |-> requestId])), r.calls)
    ELSE Ok(Stringify(r.val), r.calls)

executeApiRequest(requestJson, env) ==
  LET p == JsonParse(requestJson) IN
    IF p.threw THEN ErrorPayloadNoSuccess(p)
    ELSE LET r == executePostmanRequest(p.val, env) IN
           IF r.threw THEN ErrorPayloadNoSuccess(r)
           ELSE Ok(Stringify(r.val), r.calls)

\* searchApiDocs without its try/catch
searchApiDocs_NoCatch(query, apiEndpoint, env) ==
  searchDocs(query, apiEndpoint, env)

searchApiDocs(query, apiEndpoint, env) ==
  LET r == searchDocs(query, apiEndpoint, env) IN
    IF r.threw THEN ErrorPayload(r) ELSE r

updatePostmanRequest(collectionId, requestId, updatedRequestJson, env) ==
  LET p == JsonParse(updatedRequestJson) IN
    IF p.threw THEN ErrorPayloadNoSuccess(p)
    ELSE LET r == updateRequest(collectionId, requestId, p.val, env) IN
           IF r.threw THEN ErrorPayloadNoSuccess(r)
           ELSE Put(Ok(Stringify(Obj([success |-> Bool(TRUE),
                                      message |-> Str("Request updated successfully"),
                                      collection_id |-> collectionId,
                                      request_id |-> requestId])), r.calls),
                    r.collection)

\* similarFixes.map(...): the fix as check_memory shows it
FixView(fix) ==
  Obj([endpoint |-> Get(fix, "endpoint"),
       method |-> Get(fix, "method"),
       original_error |-> Obj([status_code |-> Get(fix, "statusCode"),
                               message |-> Get(fix, "errorMessage")]),
       fix_applied |-> Get(fix, "fixApplied"),
       corrected_request |-> Get(fix, "correctedRequest"),
       similarity_score |-> Get(fix, "score"),
       timestamp |-> Get(fix, "timestamp")])

checkMemory(endpoint, errorMessage, statusCode, env) ==
  LET r == findSimilarFixes(endpoint, errorMessage, statusCode, 3, MaxDistanceTenths, env) IN
    IF r.threw THEN ErrorPayloadNotFound(r)
    ELSE IF Len(r.val) = 0
    THEN LET n == getStoredFixCount(env) IN
           Ok(Stringify(Obj([found |-> Bool(FALSE),
                             message |-> Str("No similar fixes found in memory"),
                             total_stored |-> n.val])), r.calls \o n.calls)
    ELSE Ok(Stringify(Obj([found |-> Bool(TRUE),
                           message |-> Str("Found similar fix(es)"),
                           fixes |-> Arr([i \in 1..Len(r.val) |-> FixView(r.val[i])])])),
            r.calls)

AgentTools_storeFix(endpoint, method, statusCode, errorMessage, fixDescription, fixType, correctedRequestJson, env) ==
  LET p == JsonParse(correctedRequestJson) IN
    IF p.threw THEN ErrorPayloadNoSuccess(p)
    ELSE LET r == storeFix([endpoint |-> endpoint, method |-> method,
                            statusCode |-> statusCode,
                            errorMessage |-> errorMessage,
                            fixDescription |-> fixDescription,
                            fixType |-> fixType,
                            fixChanges |-> p.val,
                            correctedRequest |-> p.val,
                            timestamp |-> Str(ToString(env.now))], env) IN
           IF r.threw THEN ErrorPayloadNoSuccess(r)
           ELSE LET n == getStoredFixCount([env EXCEPT !.cache = r.store]) IN
                  Stored(Ok(Stringify(Obj([success |-> Bool(TRUE),
                                           message |-> Str("Fix stored in memory successfully"),
                                           total_fixes_stored |-> n.val])),
                            r.calls \o n.calls),
                         r.store)

\* default: throw new Error(`Unknown tool: ${toolName}`) -- an error payload
\* instead of the throw
unknownTool_AsPayload(toolName) ==
  Ok(Stringify(Obj([error |-> Str("Unknown tool")])), <<>>)

\* default: throw new Error(`Unknown tool: ${toolName}`)
unknownTool(toolName) == Throw("Unknown tool", <<>>)

executeTool(toolName, toolInput, env) ==
  CASE toolName = "check_memory" ->
         checkMemory(Get(toolInput, "endpoint"),
                     OrElse(Get(toolInput, "error_message"), Str("")),
                     OrElse(Get(toolInput, "status_code"), Num(0)), env)
    [] toolName = "fetch_postman_request" ->
         fetchPostmanRequest(Get(toolInput, "collection_id"),
                             Get(toolInput, "request_id"), env)
    [] toolName = "execute_api_request" ->
         executeApiRequest(Get(toolInput, "request_json"), env)
    [] toolName = "search_api_docs" ->
         searchApiDocs(Get(toolInput, "query"), Get(toolInput, "api_endpoint"), env)
    [] toolName = "update_postman_request" ->
         updatePostmanRequest(Get(toolInput, "collection_id"),
                              Get(toolInput, "request_id"),
                              Get(toolInput, "updated_request_json"), env)
    [] toolName = "store_fix" ->
         AgentTools_storeFix(Get(toolInput, "endpoint"), Get(toolInput, "method"),
                             Get(toolInput, "status_code"),
                             Get(toolInput, "error_message"),
                             Get(toolInput, "fix_description"),
                             Get(toolInput, "fix_type"),
                             Get(toolInput, "corrected_request_json"), env)
    [] OTHER -> unknownTool(toolName)

(***************************************************************************)
(* Inputs of the policy.                                                   *)
(***************************************************************************)
\* a well-formed input of each tool
ValidInput(name) ==
  CASE name = "check_memory" ->
         Obj([endpoint |-> Str("https://api/posts")])
    [] name = "fetch_postman_request" ->
         Obj([collection_id |-> Str("col-1"), request_id |-> Str("req-1")])
    [] name = "execute_api_request" ->
         Obj([request_json |-> Stringify(PostmanRequest)])
    [] name = "search_api_docs" ->
         Obj([query |-> Str("POST /posts format")])
    [] name = "update_postman_request" ->
         Obj([collection_id |-> Str("col-1"), request_id |-> Str("req-1"),
              updated_request_json |-> Stringify(PostmanRequest)])
    [] name = "store_fix" ->
         Obj([endpoint |-> Str("https://api/posts"), method |-> Str("POST"),
              status_code |-> Num(400), error_message |-> Str("Bad Request"),
              fix_description |-> Str("renamed field"), fix_type |-> Str("body"),
              corrected_request_json |-> Stringify(PostmanRequest)])
    [] OTHER -> Obj(<<>>)

\* the field of a tool that carries JSON text
JsonField(name) ==
  CASE name = "execute_api_request" -> {"request_json"}
    [] name = "update_postman_request" -> {"updated_request_json"}
    [] name = "store_fix" -> {"corrected_request_json"}
    [] OTHER -> {}

\* a tool name outside the catalogue
UnknownTool == "delete_collection"

ToolNames == Catalogue \cup {UnknownTool}

\* inputs the policy sends within a session: well-formed, with unparseable
\* JSON text, or with no field at all
SessionInputs(name) ==
  {ValidInput(name)}
    \cup {Obj([ValidInput(name).v EXCEPT ![f] = Str("{not json")]) : f \in JsonField(name)}
    \cup (IF name = "search_api_docs" THEN {Obj(<<>>)} ELSE {})

\* values a field may carry, by declared role
FieldValues(name, f) ==
  IF f \in JsonField(name)
  THEN {Undefined, Num(7), Str("{not json"), Stringify(PostmanRequest), Stringify(BareObject)}
         \cup (IF name = "update_postman_request" THEN {Stringify(GetRequest)} ELSE {})
  ELSE IF toolDefinitions[name].properties[f] = "number"
  THEN {Undefined, Num(400), Str("400")}
  ELSE IF f = "endpoint"
  THEN {Undefined, Num(7), Str("text"), Str("https://api/posts")}
  ELSE IF f = "request_id"
  THEN {Undefined, Num(7), Str("text"), Str("req-1")}
  ELSE {Undefined, Num(7), Str("text")}

\* every input object over the declared fields of a tool
AllInputs(name) ==
  CASE name = "check_memory" ->
         {Obj([endpoint |-> a, error_message |-> b, status_code |-> c]) :
            a \in FieldValues(name, "endpoint"),
            b \in FieldValues(name, "error_message"),
            c \in FieldValues(name, "status_code")}
    [] name = "fetch_postman_request" ->
         {Obj([collection_id |-> a, request_id |-> b]) :
            a \in FieldValues(name, "collection_id"),
            b \in FieldValues(name, "request_id")}
    [] name = "execute_api_request" ->
         {Obj([request_json |-> a]) : a \in FieldValues(name, "request_json")}
    [] name = "search_api_docs" ->
         {Obj([query |-> a, api_endpoint |-> b]) :
            a \in FieldValues(name, "query"),
            b \in FieldValues(name, "api_endpoint")}
    [] name = "update_postman_request" ->
         {Obj([collection_id |-> a, request_id |-> b, updated_request_json |-> c]) :
            a \in FieldValues(name, "collection_id"),
            b \in FieldValues(name, "request_id"),
            c \in FieldValues(name, "updated_request_json")}
    [] name = "store_fix" ->
         {Obj([endpoint |-> a, method |-> b, status_code |-> c,
               error_message |-> d, fix_description |-> e, fix_type |-> f,
               corrected_request_json |-> g]) :
            a \in FieldValues(name, "endpoint"),
            b \in FieldValues(name, "method"),
            c \in FieldValues(name, "status_code"),
            d \in FieldValues(name, "error_message"),
            e \in FieldValues(name, "fix_description"),
            f \in FieldValues(name, "fix_type"),
            g \in FieldValues(name, "corrected_request_json")}
    [] OTHER -> {Obj(<<>>)}

\* id of the tool_use block at position pos of turn iter
ToolUseId(iter, pos) == iter * 10 + pos

Texts == {"Task completed successfully", "I cannot fix this request"}

TextBlock(txt) == [type |-> "text", text |-> txt]

ToolUseBlock(id, name, input) ==
  [type |-> "tool_use", id |-> id, name |-> name, input |-> input]

\* the tool calls a policy turn may carry
SessionCalls ==
  UNION {{[name |-> n, input |-> i] : i \in SessionInputs(n)} : n \in ToolNames}

\* sequences of 1..MaxCalls tool calls
Batches == UNION {[1..n -> SessionCalls] : n \in 1..MaxCalls}

\* the content of a policy turn: its text blocks, then the tool_use blocks
\* with their ids
Content(txts, calls, iter) ==
  [i \in 1..Len(txts) |-> TextBlock(txts[i])]
    \o [i \in 1..Len(calls) |->
          ToolUseBlock(ToolUseId(iter, i), calls[i].name, calls[i].input)]

\* turns the policy may answer: it stops with tool_use only when the turn
\* carries a tool call, and a tool call is the end of such a turn
Responses(iter) ==
  {[stop_reason |-> "tool_use",
    content |-> Content(<<"I will call a tool">>, b, iter)] : b \in Batches}
  \cup {[stop_reason |-> r, content |-> Content(t, <<>>, iter)] :
          r \in {"end_turn", "max_tokens", "stop_sequence"},
          t \in {<<>>} \cup {<<x>> : x \in Texts}}

(***************************************************************************)
(* ApiSelfHealingAgent.heal                                                *)
(***************************************************************************)
VARIABLES
  pc,             \* "loop", "await", "dispatch", "done", "error"
  iteration,      \* the loop counter
  messages,       \* the transcript handed to the policy
  response,       \* the policy turn being handled
  callIdx,        \* position of the tool_use block being dispatched
  toolResults,    \* content of the tool-result turn being built
  lastToolName,
  lastToolResult,
  result,         \* the value heal returned
  error,          \* the message of the error heal raised
  requests,       \* number of policy requests issued
  dispatchLog,    \* executeTool calls of the current turn: the call, the
                  \* collaborator requests that failed, the outcome
  probe,          \* one call made outside a session, with its outcome
  cache,          \* the Redis hashes under the fix: prefix, by key
  clock,          \* the value Date.now() returns
  connPc,         \* position of each process in connect()
  index,          \* does the search index fix_idx exist
  mainPc,         \* position of main(): "start", "heal", "catch", "finally",
                  \* "exited"
  connected,      \* is the Redis client of the memory service open
  stored,         \* the collection Postman holds, null before it is loaded
  pmPc,           \* position of each session in updateRequest: "idle",
                  \* "fetched", "done", "failed"
  fetched,        \* the collection each session got from its GET
  pmCall,         \* the updateRequest call of each session and its outcome
  healPc,         \* position of each of two heal calls on one agent: "start",
                  \* "loop", "await", "dispatch", "done", "error"
  frames,         \* the locals of heal (messages, iteration), by frame
  asked           \* number of policy requests each heal call has issued

healVars == <<pc, iteration, messages, response, callIdx, toolResults,
              lastToolName, lastToolResult, result, error, requests,
              dispatchLog>>

pmVars == <<stored, pmPc, fetched, pmCall>>

pairVars == <<healPc, frames, asked>>

memVars == <<cache, clock, connPc, index, mainPc, connected, pmVars, pairVars>>

vars == <<pc, iteration, messages, response, callIdx, toolResults,
          lastToolName, lastToolResult, result, error, requests,
          dispatchLog, probe, cache, clock, connPc, index, mainPc, connected,
          stored, pmPc, fetched, pmCall, healPc, frames, asked>>

SuccessMessage ==
  Str("Task completed successfully. The API request has been fixed and updated in Postman.")

MaxIterationsMessage == Str("Max iterations reached. Could not complete the task.")

UnexpectedMessage == Str("Agent stopped unexpectedly.")

NoResponse == [stop_reason |-> "none", content |-> <<>>]

\* the sessions that run side by side
Sessions == {"a", "b"}

\* the locals of a heal call that has not started
NoFrame == [messages |-> <<>>, iteration |-> 0]

NoProbe == [name |-> "none"]

\* the for loop left after the first tool_use block
ToolUses_FirstOnly(content) ==
  LET all == SelectSeq(content, LAMBDA b : b.type = "tool_use") IN
    IF all = <<>> THEN all ELSE <<all[1]>>

\* the tool_use blocks of a content, in order
ToolUses(content) == SelectSeq(content, LAMBDA b : b.type = "tool_use")

\* texts.join('\n')
RECURSIVE Join(_)
Join(texts) ==
  IF texts = <<>> THEN ""
  ELSE IF Len(texts) = 1 THEN texts[1]
  ELSE texts[1] \o "\n" \o Join(Tail(texts))

\* the filter keeps the blocks that are not text: the text is lost
extractTextContent_NoText(content) ==
  LET blocks == SelectSeq(content, LAMBDA b : b.type # "text") IN
    Str(Join([i \in 1..Len(blocks) |-> ""]))

\* content.filter(type === 'text').map(text).join('\n')
extractTextContent(content) ==
  LET blocks == SelectSeq(content, LAMBDA b : b.type = "text") IN
    Str(Join([i \in 1..Len(blocks) |-> blocks[i].text]))

\* what the transcript keeps of a block: its type and its id
Outline(blocks) ==
  [i \in 1..Len(blocks) |->
     IF blocks[i].type = "text" THEN [type |-> "text"]
     ELSE IF blocks[i].type = "tool_use"
     THEN [type |-> "tool_use", id |-> blocks[i].id]
     ELSE [type |-> "tool_result", tool_use_id |-> blocks[i].tool_use_id]]

Init ==
  /\ pc = "loop"
  /\ iteration = 0
  /\ messages = <<[role |-> "user", content |-> <<[type |-> "text"]>>]>>
  /\ response = NoResponse
  /\ callIdx = 0
  /\ toolResults = <<>>
  /\ lastToolName = ""
  /\ lastToolResult = Null
  /\ result = Null
  /\ error = ""
  /\ requests = 0
  /\ dispatchLog = <<>>
  /\ probe = NoProbe
  /\ cache = <<>>
  /\ clock = 1
  /\ connPc = [p \in Procs |-> "new"]
  /\ index = FALSE
  /\ mainPc = "start"
  /\ connected = FALSE
  /\ stored = Null
  /\ pmPc = [s \in Sessions |-> "idle"]
  /\ fetched = [s \in Sessions |-> Null]
  /\ pmCall = [s \in Sessions |-> Null]
  /\ healPc = [s \in Sessions |-> "start"]
  /\ frames = [s \in Sessions |-> NoFrame]
  /\ asked = [s \in Sessions |-> 0]

\* the loop guard written with <= : one round too many
LoopGuard_OffByOne == iteration <= maxIterations

\* while (iteration < maxIterations)
LoopGuard == iteration < maxIterations

\* iteration++; messages.create(...): a new round of the loop body, whose
\* locals (response, toolResults, lastToolName, lastToolResult) start afresh
RequestPolicy ==
  /\ pc = "loop"
  /\ LoopGuard
  /\ iteration' = iteration + 1
  /\ requests' = requests + 1
  /\ pc' = "await"
  /\ response' = NoResponse
  /\ callIdx' = 0
  /\ toolResults' = <<>>
  /\ lastToolName' = ""
  /\ lastToolResult' = Null
  /\ dispatchLog' = <<>>
  /\ UNCHANGED <<messages, result, error, probe, memVars>>

\* the test after the loop written with > : the cap is never recognised
AfterLoop_Strict ==
  IF iteration > maxIterations THEN MaxIterationsMessage ELSE UnexpectedMessage

\* the statements after the loop
AfterLoop ==
  IF iteration >= maxIterations THEN MaxIterationsMessage ELSE UnexpectedMessage

LoopExit ==
  /\ pc = "loop"
  /\ ~LoopGuard
  /\ result' = AfterLoop
  /\ pc' = "done"
  /\ UNCHANGED <<iteration, messages, response, callIdx, toolResults,
                 lastToolName, lastToolResult, error, requests, dispatchLog,
                 probe, memVars>>

\* the policy request raises
PolicyFails ==
  /\ pc = "await"
  /\ pc' = "error"
  /\ error' = "Policy request failed"
  /\ UNCHANGED <<iteration, messages, response, callIdx, toolResults,
                 lastToolName, lastToolResult, result, requests, dispatchLog,
                 probe, memVars>>

\* the policy answers with stop reason end_turn
PolicyEndTurn ==
  /\ pc = "await"
  /\ \E r \in Responses(iteration) :
       /\ r.stop_reason = "end_turn"
       /\ response' = r
       /\ result' = extractTextContent(r.content)
  /\ pc' = "done"
  /\ UNCHANGED <<iteration, messages, callIdx, toolResults, lastToolName,
                 lastToolResult, error, requests, dispatchLog, probe, memVars>>

\* the policy answers with stop reason tool_use
PolicyToolUse ==
  /\ pc = "await"
  /\ \E r \in Responses(iteration) :
       /\ r.stop_reason = "tool_use"
       /\ response' = r
  /\ callIdx' = 1
  /\ pc' = "dispatch"
  /\ UNCHANGED <<iteration, messages, toolResults, lastToolName, lastToolResult,
                 result, error, requests, dispatchLog, probe, memVars>>

\* the policy answers with another stop reason: break, then the statements
\* after the loop
PolicyOtherStop ==
  /\ pc = "await"
  /\ \E r \in Responses(iteration) :
       /\ r.stop_reason \notin {"end_turn", "tool_use"}
       /\ response' = r
  /\ result' = AfterLoop
  /\ pc' = "done"
  /\ UNCHANGED <<iteration, messages, callIdx, toolResults, lastToolName,
                 lastToolResult, error, requests, dispatchLog, probe, memVars>>

\* the success check made against a tool name that is not in the catalogue
UpdateSucceeded_WrongName(name, res) ==
  /\ name = "update_request"
  /\ LET parsed == IF IsString(res) THEN JsonParse(res).val ELSE res IN
       Get(parsed, "success") = Bool(TRUE)

\* resultObj.success === true, on the parsed result of the last tool
UpdateSucceeded(name, res) ==
  /\ name = "update_postman_request"
  /\ LET parsed == IF IsString(res) THEN JsonParse(res).val ELSE res IN
       Get(parsed, "success") = Bool(TRUE)

\* the tool_result block pushed for a call
ToolResultBlock(block, res) ==
  [type |-> "tool_result", tool_use_id |-> block.id,
   content |-> IF IsString(res) THEN res ELSE Stringify(res)]

\* unshift instead of push: the results come out in reverse order
PushResult_Unshift(results, block, res) ==
  <<ToolResultBlock(block, res)>> \o results

\* toolResults.content.push(...)
PushResult(results, block, res) == Append(results, ToolResultBlock(block, res))

\* the for loop left after its first round
MoreBlocks_FirstOnly(idx, calls) == FALSE

\* for (const block of response.content): is there a block after this one
MoreBlocks(idx, calls) == idx < Len(calls)

\* the tool-result turn pushed without the policy turn before it
PushTurns_ResultsOnly(msgs, content, results) ==
  msgs \o <<[role |-> "user", content |-> Outline(results)]>>

\* messages.push({role: 'assistant', content: response.content}, toolResults)
PushTurns(msgs, content, results) ==
  msgs \o <<[role |-> "assistant", content |-> Outline(content)],
            [role |-> "user", content |-> Outline(results)]>>

\* the requests of a call that the collaborator failed
FailedCalls(env, calls) ==
  {c \in {calls[i] : i \in 1..Len(calls)} :
     \/ c = "postman.get" /\ ~env.get
     \/ c = "postman.put" /\ ~env.put
     \/ c = "http" /\ env.http = 0
     \/ c = "parallel.search" /\ env.docs = "fail"
     \/ c = "embedder" /\ ~env.embed
     \/ c = "redis.ftSearch" /\ ~env.search
     \/ c = "redis.hSet" /\ ~env.write
     \/ c = "redis.ftInfo" /\ ~env.info}

\* one round of the for loop: executeTool on the next tool_use block; after
\* the last block the success check and the push onto the transcript
DispatchTool ==
  /\ pc = "dispatch"
  /\ LET calls == ToolUses(response.content)
         block == calls[callIdx]
     IN \E env \in Envs(block.name) :
          LET out == executeTool(block.name, block.input, env)
              results == PushResult(toolResults, block, out.val)
          IN /\ dispatchLog' = Append(dispatchLog,
                                 [id |-> block.id, name |-> block.name,
                                  input |-> block.input,
                                  failed |-> FailedCalls(env, out.calls),
                                  out |-> out])
             /\ IF out.threw
                THEN /\ pc' = "error"
                     /\ error' = out.val
                     /\ UNCHANGED <<messages, callIdx, toolResults, lastToolName,
                                    lastToolResult, result>>
                ELSE /\ lastToolName' = block.name
                     /\ lastToolResult' = out.val
                     /\ toolResults' = results
                     /\ error' = error
                     /\ IF MoreBlocks(callIdx, calls)
                        THEN /\ callIdx' = callIdx + 1
                             /\ pc' = "dispatch"
                             /\ UNCHANGED <<messages, result>>
                        ELSE /\ callIdx' = callIdx
                             /\ IF UpdateSucceeded(block.name, out.val)
                                THEN /\ result' = SuccessMessage
                                     /\ pc' = "done"
                                     /\ messages' = messages
                                ELSE /\ messages' = PushTurns(messages, response.content,
                                                                results)
                                     /\ pc' = "loop"
                                     /\ result' = result
  /\ UNCHANGED <<iteration, response, requests, probe, memVars>>

Next ==
  \/ RequestPolicy
  \/ LoopExit
  \/ PolicyFails
  \/ PolicyEndTurn
  \/ PolicyToolUse
  \/ PolicyOtherStop
  \/ DispatchTool

Spec == Init /\ [][Next]_vars

(***************************************************************************)
(* executeTool on its own: any catalogued or unknown tool, any input over  *)
(* the declared fields, any answer of the collaborators.                   *)
(***************************************************************************)
ToolCall ==
  /\ probe = NoProbe
  /\ \E name \in ToolNames :
       \E input \in AllInputs(name) :
         \E env \in Envs(name) :
           probe' = [name |-> name, input |-> input, env |-> env,
                     out |-> executeTool(name, input, env)]
  /\ UNCHANGED <<healVars, memVars>>

ToolReturn ==
  /\ probe # NoProbe
  /\ probe' = NoProbe
  /\ UNCHANGED <<healVars, memVars>>

ToolNext == ToolCall \/ ToolReturn

ToolSpec == Init /\ [][ToolNext]_vars

(***************************************************************************)
(* The error classifier on its own: any status code, any message.          *)
(***************************************************************************)
StatusCodes == {0, 200, 400, 401, 403, 404, 422, 429, 500, 503}

Messages ==
  {"", "Network Error", "timeout of 5000ms exceeded",
   "Request failed with status code 401", "Invalid Format", "invalid format",
   "MALFORMED", "Unexpected token: JSON Parse error", "SyntaxError",
   "Validation failed", "body does not match Schema", "Forbidden"}

ClassifyCall ==
  /\ probe = NoProbe
  /\ \E statusCode \in StatusCodes :
       \E message \in Messages :
         probe' = [name |-> "isFormatError", statusCode |-> statusCode,
                   message |-> message,
                   out |-> isFormatError(statusCode, message)]
  /\ UNCHANGED <<healVars, memVars>>

ClassifyReturn ==
  /\ probe # NoProbe
  /\ probe' = NoProbe
  /\ UNCHANGED <<healVars, memVars>>

ClassifyNext == ClassifyCall \/ ClassifyReturn

ClassifySpec == Init /\ [][ClassifyNext]_vars

(***************************************************************************)
(* The fix memory on its own: sessions store fixes and look them up in     *)
(* the same Redis, one request at a time, while the clock runs.            *)
(***************************************************************************)
\* fixes handed to MemoryService.storeFix; the second has the signature of
\* the first, the last has no corrected request
Fixes ==
  {StoredFix,
   [StoredFix EXCEPT !.method = Str("PUT"), !.fixDescription = Str("added header"),
                     !.fixType = Str("header"), !.fixChanges = BareObject,
                     !.correctedRequest = BareObject],
   [StoredFix EXCEPT !.errorMessage = Str("Bad Request: invalid JSON"),
                     !.fixDescription = Str("quoted keys")],
   [StoredFix EXCEPT !.correctedRequest = Undefined]}

\* signatures looked up: endpoint, status code, error message
Queries ==
  {<<Str("https://api/posts"), Num(400), Str("Bad Request")>>,
   <<Str("https://api/posts"), Num(400), Str("Bad Request: invalid JSON")>>,
   <<Str("https://api/users"), Num(404), Str("Not Found")>>}

\* thresholds looked up with (in tenths)
MaxDistances == {0, MaxDistanceTenths}

\* inputs of the store_fix tool
StoreFixInputs ==
  {ValidInput("store_fix"),
   Obj([ValidInput("store_fix").v EXCEPT !.corrected_request_json = Str("{not json")]),
   Obj([ValidInput("store_fix").v EXCEPT !.corrected_request_json = Stringify(BareObject),
                                         !.fix_type = Str("header")])}

\* the orders in which the index may rank the keys of S
Rankings(S) ==
  {r \in [1..Cardinality(S) -> S] :
     \A i, j \in 1..Cardinality(S) : i # j => r[i] # r[j]}

\* the collaborators as a call finds them: the one named by failure fails
MemEnv(failure, rank) ==
  [EnvOk EXCEPT !.embed = failure # "embedder",
                !.search = failure # "redis.ftSearch",
                !.write = failure # "redis.hSet",
                !.info = failure # "redis.ftInfo",
                !.cache = cache, !.rank = rank, !.now = clock]

\* the hashes a call leaves in Redis
StoreAfter(out) == IF "store" \in DOMAIN out THEN out.store ELSE cache

\* Date.now() moves on
Tick ==
  /\ clock < MaxClock
  /\ clock' = clock + 1
  /\ UNCHANGED <<healVars, probe, cache, connPc, index, mainPc, connected, pmVars, pairVars>>

\* memoryService.storeFix(entry)
MemStore ==
  /\ \E fix \in Fixes :
       \E failure \in {"none", "embedder", "redis.hSet"} :
         LET entry == [fix EXCEPT !.timestamp = Str(ToString(clock))]
             out == storeFix(entry, MemEnv(failure, <<>>))
         IN /\ probe' = [name |-> "storeFix", entry |-> entry, key |-> clock,
                         failure |-> failure, out |-> out]
            /\ cache' = StoreAfter(out)
  /\ UNCHANGED <<healVars, clock, connPc, index, mainPc, connected, pmVars, pairVars>>

\* memoryService.findSimilarFixes(endpoint, errorMessage, statusCode, k, maxDistance)
MemFind ==
  /\ \E q \in Queries :
       \E k \in 1..MaxK :
         \E maxDistance \in MaxDistances :
           \E failure \in {"none", "embedder", "redis.ftSearch"} :
             \E rank \in (IF failure = "none" THEN Rankings(DOMAIN cache)
                                                 ELSE {<<>>}) :
               probe' = [name |-> "findSimilarFixes", endpoint |-> q[1],
                         statusCode |-> q[2], errorMessage |-> q[3], k |-> k,
                         maxDistance |-> maxDistance, failure |-> failure,
                         out |-> findSimilarFixes(q[1], q[3], q[2], k, maxDistance,
                                                  MemEnv(failure, rank))]
  /\ UNCHANGED <<healVars, memVars>>

\* executeTool('store_fix', input)
MemToolStore ==
  /\ \E input \in StoreFixInputs :
       \E failure \in {"none", "embedder", "redis.hSet", "redis.ftInfo"} :
         LET out == executeTool("store_fix", input, MemEnv(failure, <<>>))
         IN /\ probe' = [name |-> "store_fix", input |-> input, key |-> clock,
                         failure |-> failure, out |-> out]
            /\ cache' = StoreAfter(out)
  /\ UNCHANGED <<healVars, clock, connPc, index, mainPc, connected, pmVars, pairVars>>

MemNext == Tick \/ MemStore \/ MemFind \/ MemToolStore

MemSpec == Init /\ [][MemNext]_vars

(***************************************************************************)
(* connect(): several processes start against the same Redis.  Each await  *)
(* is a step of its own, so the steps of the processes interleave.         *)
(***************************************************************************)
\* await this.client.connect()
ClientConnect(p) ==
  /\ connPc[p] = "new"
  /\ connPc' = [connPc EXCEPT ![p] = "connected"]
  /\ UNCHANGED <<healVars, probe, cache, clock, index, mainPc, connected, pmVars, pairVars>>

\* this.embedder = await pipeline(...)
LoadEmbedder(p) ==
  /\ connPc[p] = "connected"
  /\ connPc' = [connPc EXCEPT ![p] = "loaded"]
  /\ UNCHANGED <<healVars, probe, cache, clock, index, mainPc, connected, pmVars, pairVars>>

\* ensureIndexExists: FT.INFO answers, or fails and the catch goes on to
\* createIndex
ensureIndexExists(p) ==
  /\ connPc[p] = "loaded"
  /\ connPc' = [connPc EXCEPT ![p] = IF index THEN "ready" ELSE "creating"]
  /\ UNCHANGED <<healVars, probe, cache, clock, index, mainPc, connected, pmVars, pairVars>>

\* createIndex: FT.CREATE makes the index, or answers 'Index already exists',
\* an error that nothing catches on its way out of connect()
createIndex(p) ==
  /\ connPc[p] = "creating"
  /\ connPc' = [connPc EXCEPT ![p] = IF index THEN "failed" ELSE "ready"]
  /\ index' = TRUE
  /\ UNCHANGED <<healVars, probe, cache, clock, mainPc, connected, pmVars, pairVars>>

ConnectNext ==
  \E p \in Procs :
    \/ ClientConnect(p)
    \/ LoadEmbedder(p)
    \/ ensureIndexExists(p)
    \/ createIndex(p)

ConnectSpec == Init /\ [][ConnectNext]_vars

(***************************************************************************)
(* main(): connect the memory service, run one healing session, and leave  *)
(* through the catch block or the finally block.                           *)
(***************************************************************************)
\* where connect() can fail: nowhere, before the client is open, or after
ConnectFailures == {"none", "client.connect", "pipeline", "ensureIndexExists"}

\* await memoryService.connect()
MainConnect ==
  /\ mainPc = "start"
  /\ \E failure \in ConnectFailures :
       /\ connected' = (failure # "client.connect")
       /\ mainPc' = IF failure = "none" THEN "heal" ELSE "catch"
  /\ UNCHANGED <<healVars, probe, cache, clock, connPc, index, pmVars, pairVars>>

\* await agent.heal(collectionId, requestId): the steps of the session
MainHeal ==
  /\ mainPc = "heal"
  /\ Next

\* heal returned: the result is printed and the try block ends
MainHealReturns ==
  /\ mainPc = "heal"
  /\ pc = "done"
  /\ mainPc' = "finally"
  /\ UNCHANGED <<healVars, probe, cache, clock, connPc, index, connected, pmVars, pairVars>>

\* heal raised: control passes to the catch block
MainHealRaises ==
  /\ mainPc = "heal"
  /\ pc = "error"
  /\ mainPc' = "catch"
  /\ UNCHANGED <<healVars, probe, cache, clock, connPc, index, connected, pmVars, pairVars>>

\* catch: console.error, then process.exit(1) ends the process at once
MainCatch ==
  /\ mainPc = "catch"
  /\ mainPc' = "exited"
  /\ UNCHANGED <<healVars, probe, cache, clock, connPc, index, connected, pmVars, pairVars>>

\* finally: await memoryService.disconnect(), then main returns
MainFinally ==
  /\ mainPc = "finally"
  /\ connected' = FALSE
  /\ mainPc' = "exited"
  /\ UNCHANGED <<healVars, probe, cache, clock, connPc, index, pmVars, pairVars>>

MainNext ==
  \/ MainConnect
  \/ MainHeal
  \/ MainHealReturns
  \/ MainHealRaises
  \/ MainCatch
  \/ MainFinally

MainSpec == Init /\ [][MainNext]_vars

(***************************************************************************)
(* updateRequest against one Postman collection: sessions fetch the        *)
(* collection, change their copy and PUT it back.  The GET and the PUT are *)
(* awaited, so the steps of the sessions interleave.                       *)
(***************************************************************************)
\* a request item with this id and name
RequestItem(id, name) ==
  Obj([id |-> Str(id), name |-> Str(name),
       request |-> Obj([method |-> Str("POST"), url |-> Str("https://api/posts")])])

\* a folder with this id holding these items
Folder(id, items) == Obj([id |-> Str(id), name |-> Str("Folder"), item |-> Arr(items)])

\* a collection with these items
CollectionOf(items) ==
  Obj([collection |-> Obj([info |-> Obj([name |-> Str("API")]), item |-> Arr(items)])])

\* collections Postman may hold: two requests side by side; one of them in a
\* folder; two items with the same id; an item whose id has six segments,
\* alone and next to the item its last five segments name
Collections ==
  {CollectionOf(<<RequestItem("req-1", "Create post"), RequestItem("req-2", "List posts")>>),
   CollectionOf(<<Folder("fld-1", <<RequestItem("req-1", "Create post")>>),
                  RequestItem("req-2", "List posts")>>),
   CollectionOf(<<Folder("fld-1", <<RequestItem("req-1", "Create post")>>),
                  RequestItem("req-1", "Copy of create post")>>),
   CollectionOf(<<RequestItem("w-a-b-c-d-e", "Create post")>>),
   CollectionOf(<<RequestItem("a-b-c-d-e", "List posts"),
                  RequestItem("w-a-b-c-d-e", "Create post")>>)}

\* request ids the sessions ask for
RequestIds == {Str("req-1"), Str("req-2"), Str("w-a-b-c-d-e"), Str("a-b-c-d-e")}

\* what the sessions write over the target
Updates ==
  {Obj([name |-> Str("Fixed")]),
   Obj([request |-> Obj([method |-> Str("POST"), url |-> Str("https://api/v2/posts")])])}

\* the collection is created in Postman
PmLoad ==
  /\ stored = Null
  /\ stored' \in Collections
  /\ UNCHANGED <<healVars, probe, cache, clock, connPc, index, mainPc, connected,
                 pmPc, fetched, pmCall, pairVars>>

\* updateRequest, up to its first await: const collection = await
\* this.getCollection(collectionId)
PmFetch(s) ==
  /\ stored # Null
  /\ pmPc[s] = "idle"
  /\ \E requestId \in RequestIds :
       \E updatedRequest \in Updates :
         pmCall' = [pmCall EXCEPT ![s] = [requestId |-> requestId,
                                          updatedRequest |-> updatedRequest]]
  /\ fetched' = [fetched EXCEPT ![s] = stored]
  /\ pmPc' = [pmPc EXCEPT ![s] = "fetched"]
  /\ UNCHANGED <<healVars, probe, cache, clock, connPc, index, mainPc, connected,
                 stored, pairVars>>

\* updateRequest, the rest: the copy is changed and sent with PUT, or the
\* target is missing and the call raises
PmPut(s) ==
  /\ pmPc[s] = "fetched"
  /\ LET out == updateRequest(Str("col-1"), pmCall[s].requestId,
                              pmCall[s].updatedRequest,
                              [EnvOk EXCEPT !.collection = fetched[s]])
     IN /\ pmCall' = [pmCall EXCEPT ![s] = [requestId |-> pmCall[s].requestId,
                                             updatedRequest |-> pmCall[s].updatedRequest,
                                             out |-> out]]
        /\ pmPc' = [pmPc EXCEPT ![s] = IF out.threw THEN "failed" ELSE "done"]
        /\ stored' = IF out.threw THEN stored
                                  ELSE Obj([collection |-> out.collection])
  /\ UNCHANGED <<healVars, probe, cache, clock, connPc, index, mainPc, connected,
                 fetched, pairVars>>

PostmanNext ==
  \/ PmLoad
  \/ \E s \in Sessions : PmFetch(s) \/ PmPut(s)

PostmanSpec == Init /\ [][PostmanNext]_vars

(***************************************************************************)
(* Two heal calls on one agent.  Every await of heal is a step of its own, *)
(* so the steps of the two calls interleave.  A turn of a transcript is    *)
(* kept as its role, the call it belongs to and the iteration it was made  *)
(* in.                                                                     *)
(***************************************************************************)
\* messages and iteration kept in one place for all calls, as fields of the
\* agent would be
Frame_Shared(s) == "a"

\* let messages, let iteration: locals, one frame per call of heal
Frame(s) == s

\* { role: 'user', content: initialPrompt }
OpeningTurn(s) == [role |-> "user", session |-> s, turn |-> 0]

\* messages = [opening turn]; iteration = 0
HealStart(s) ==
  /\ healPc[s] = "start"
  /\ frames' = [frames EXCEPT ![Frame(s)] = [messages |-> <<OpeningTurn(s)>>,
                                             iteration |-> 0]]
  /\ healPc' = [healPc EXCEPT ![s] = "loop"]
  /\ UNCHANGED <<healVars, probe, cache, clock, connPc, index, mainPc, connected,
                 pmVars, asked>>

\* iteration++; await this.client.messages.create({..., messages, ...})
HealRequest(s) ==
  /\ healPc[s] = "loop"
  /\ frames[Frame(s)].iteration < maxIterations
  /\ frames' = [frames EXCEPT ![Frame(s)].iteration = @ + 1]
  /\ asked' = [asked EXCEPT ![s] = @ + 1]
  /\ healPc' = [healPc EXCEPT ![s] = "await"]
  /\ UNCHANGED <<healVars, probe, cache, clock, connPc, index, mainPc, connected,
                 pmVars>>

\* the loop guard fails: the statements after the loop
HealLoopExit(s) ==
  /\ healPc[s] = "loop"
  /\ ~(frames[Frame(s)].iteration < maxIterations)
  /\ healPc' = [healPc EXCEPT ![s] = "done"]
  /\ UNCHANGED <<healVars, probe, cache, clock, connPc, index, mainPc, connected,
                 pmVars, frames, asked>>

\* the policy answers: end_turn or another stop reason ends the call, a
\* failing request raises, tool_use goes on to the tools
HealAnswer(s) ==
  /\ healPc[s] = "await"
  /\ \E next \in {"done", "error", "dispatch"} :
       healPc' = [healPc EXCEPT ![s] = next]
  /\ UNCHANGED <<healVars, probe, cache, clock, connPc, index, mainPc, connected,
                 pmVars, frames, asked>>

\* the tools of the turn have run: return on a successful update, raise out
\* of executeTool, or messages.push(policy turn, toolResults)
HealDispatch(s) ==
  /\ healPc[s] = "dispatch"
  /\ \/ /\ \E next \in {"done", "error"} : healPc' = [healPc EXCEPT ![s] = next]
        /\ frames' = frames
     \/ /\ healPc' = [healPc EXCEPT ![s] = "loop"]
        /\ frames' = [frames EXCEPT ![Frame(s)].messages =
                         @ \o <<[role |-> "assistant", session |-> s,
                                 turn |-> frames[Frame(s)].iteration],
                                [role |-> "user", session |-> s,
                                 turn |-> frames[Frame(s)].iteration]>>]
  /\ UNCHANGED <<healVars, probe, cache, clock, connPc, index, mainPc, connected,
                 pmVars, asked>>

PairNext ==
  \E s \in Sessions :
    \/ HealStart(s)
    \/ HealRequest(s)
    \/ HealLoopExit(s)
    \/ HealAnswer(s)
    \/ HealDispatch(s)

PairSpec == Init /\ [][PairNext]_vars

(***************************************************************************)
(* Properties of the healing loop.                                         *)
(***************************************************************************)
\* ids of the tool_use blocks of a content, in emission order
CallIds(content) ==
  LET F[i \in 0..Len(content)] ==
        IF i = 0 THEN <<>>
        ELSE IF content[i].type = "tool_use" THEN Append(F[i - 1], content[i].id)
        ELSE F[i - 1]
  IN F[Len(content)]

\* the text of a content: its text blocks in order, one per line
TextOf(content) ==
  LET F[i \in 0..Len(content)] ==
        IF i = 0 THEN ""
        ELSE IF content[i].type # "text" THEN F[i - 1]
        ELSE IF \A j \in 1..(i - 1) : content[j].type # "text"
        THEN content[i].text
        ELSE F[i - 1] \o "\n" \o content[i].text
  IN F[Len(content)]

\* the payload of a tool outcome carries success = true
ReportsSuccess(out) ==
  /\ ~out.threw
  /\ out.val.t = "jsonstring"
  /\ Get(out.val.v, "success") = Bool(TRUE)

\* the payload of a tool outcome carries an error description
ReportsError(out) ==
  /\ ~out.threw
  /\ out.val.t = "jsonstring"
  /\ Get(out.val.v, "error") # Undefined

\* every tool call of the current turn has been dispatched and has returned
BatchDone ==
  /\ response.stop_reason = "tool_use"
  /\ Len(dispatchLog) = Len(CallIds(response.content))
  /\ \A i \in 1..Len(dispatchLog) : ~dispatchLog[i].out.threw

\* the last call of the finished batch is a successful update_postman_request
LastIsSuccessfulUpdate ==
  /\ BatchDone
  /\ dispatchLog # <<>>
  /\ dispatchLog[Len(dispatchLog)].name = "update_postman_request"
  /\ ReportsSuccess(dispatchLog[Len(dispatchLog)].out)

\* C1: the number of policy requests issued so far (the turn index) is always
\* between 0 and maxIterations, so no request is issued once it equals
\* maxIterations.
C1_IterationBound ==
  /\ requests \in 0..maxIterations
  /\ iteration = requests
  /\ pc = "await" => requests >= 1

\* the cap is reached and the loop is back at its head
C1_Witness == pc = "loop" /\ requests = maxIterations

\* C2: when the last tool call of turn N is update_postman_request and its
\* result has success = true, heal has returned the fixed success message at
\* turn N: nothing was appended to the transcript and request N+1 is not made.
C2_SuccessShortCircuit ==
  LastIsSuccessfulUpdate =>
    /\ pc = "done"
    /\ result = SuccessMessage
    /\ requests = iteration
    /\ Len(messages) = 2 * iteration - 1

\* the short-circuit taken at the second turn, after a batch of two calls
C2_Witness ==
  /\ LastIsSuccessfulUpdate
  /\ iteration = 2
  /\ Len(dispatchLog) = 2
  /\ result = SuccessMessage

\* C3 as stated: a policy turn that carries no tool call, whatever its stop
\* reason, ends the session with that turn's text as result and without any
\* tool dispatched.
C3_NoToolCallsReturnsText ==
  (response.stop_reason # "none" /\ CallIds(response.content) = <<>>) =>
    /\ pc = "done"
    /\ result = Str(TextOf(response.content))
    /\ dispatchLog = <<>>

\* C3 amended: a turn with stop reason end_turn ends the session with that
\* turn's text as result and no tool dispatched; a turn with a stop reason
\* other than end_turn and tool_use ends it too with no tool dispatched, but
\* with a fixed message as result.
C3_EndTurnReturnsText ==
  /\ response.stop_reason = "end_turn" =>
       /\ pc = "done"
       /\ result = Str(TextOf(response.content))
       /\ dispatchLog = <<>>
  /\ response.stop_reason \notin {"none", "end_turn", "tool_use"} =>
       /\ pc = "done"
       /\ result \in {UnexpectedMessage, MaxIterationsMessage}
       /\ dispatchLog = <<>>

\* the policy stopped with end_turn and a text at the second turn
C3_Witness ==
  /\ response.stop_reason = "end_turn"
  /\ iteration = 2
  /\ result = Str("I cannot fix this request")

\* distance of a state from the end of the session: the rounds left, and
\* within a round the steps left (request, one step per tool call, loop head)
Measure ==
  IF pc \in {"done", "error"} THEN 0
  ELSE (maxIterations - iteration) * (MaxCalls + 3)
         + (CASE pc = "await" -> MaxCalls + 2
              [] pc = "dispatch" -> MaxCalls + 2 - callIdx
              [] OTHER -> 1)

\* a session that returned after a tool-use turn without the short-circuit
\* returned the max-iterations message after exactly maxIterations requests
ReturnsAtCap ==
  /\ (pc = "done" /\ response.stop_reason = "tool_use" /\ ~LastIsSuccessfulUpdate)
       => (result = MaxIterationsMessage /\ requests = maxIterations)
  /\ (pc = "loop" /\ requests > 0) => (BatchDone /\ ~LastIsSuccessfulUpdate)
  /\ pc = "error" => result = Null

\* C4: a session whose turns all carry tool calls and never end with a
\* successful update_postman_request returns after exactly maxIterations
\* policy requests with the max-iterations message; it cannot run forever,
\* since every step brings the session closer to its end.
C4_TerminatesAtCap ==
  [][/\ Measure' < Measure
     /\ Measure' >= 0
     /\ ReturnsAtCap']_vars

\* the cap was hit after maxIterations tool-use turns
C4_Witness ==
  /\ pc = "done"
  /\ response.stop_reason = "tool_use"
  /\ result = MaxIterationsMessage
  /\ requests = maxIterations
  /\ Len(messages) = 2 * maxIterations + 1

\* the transcript entry i is a policy turn answered by entry i+1
Answered(i) ==
  /\ i + 1 <= Len(messages)
  /\ messages[i + 1].role = "user"
  /\ \A j \in 1..Len(messages[i + 1].content) :
       messages[i + 1].content[j].type = "tool_result"
  /\ [j \in 1..Len(messages[i + 1].content) |->
        messages[i + 1].content[j].tool_use_id] = CallIds(messages[i].content)

\* C5: at every policy request after the first, the transcript ends with the
\* preceding policy turn followed by a tool-result turn that holds exactly one
\* result per tool call, in emission order, each with the id of its call.
C5_OneResultPerCall ==
  /\ \A i \in 1..Len(messages) : messages[i].role = "assistant" => Answered(i)
  /\ (pc = "await" /\ requests > 1) =>
       /\ Len(messages) = 2 * requests - 1
       /\ messages[Len(messages) - 1].role = "assistant"

\* the second request is out and the first turn carried two tool calls
C5_Witness ==
  /\ pc = "await"
  /\ requests = 2
  /\ Len(CallIds(messages[2].content)) = 2
  /\ Len(messages[3].content) = 2

\* C6: the tool calls of a turn are dispatched one at a time in emission
\* order, and all of them are: while the batch is running the calls made are
\* the first callIdx - 1 of the turn, and when it is over every call has been
\* made, whatever the earlier ones returned.
C6_AllDispatchedInOrder ==
  LET ids == CallIds(response.content) IN
    /\ Len(dispatchLog) <= Len(ids)
    /\ \A i \in 1..Len(dispatchLog) : dispatchLog[i].id = ids[i]
    /\ pc = "dispatch" => Len(dispatchLog) = callIdx - 1
    /\ [i \in 1..Len(toolResults) |-> toolResults[i].tool_use_id]
         = [i \in 1..Len(toolResults) |-> ids[i]]
    /\ (pc \in {"loop", "done"} /\ response.stop_reason = "tool_use") =>
         /\ Len(dispatchLog) = Len(ids)
         /\ Len(toolResults) = Len(ids)

\* a batch of two ran to its end although its first call returned a failure
\* or was a successful update
C6_Witness ==
  /\ pc = "loop"
  /\ Len(dispatchLog) = 2
  /\ \/ ReportsError(dispatchLog[1].out)
     \/ /\ dispatchLog[1].name = "update_postman_request"
        /\ ReportsSuccess(dispatchLog[1].out)

(***************************************************************************)
(* Properties of the tool dispatcher.                                      *)
(***************************************************************************)
\* the JSON argument of the call is text that does not parse
UnparseableArgument(name, input) ==
  \E f \in JsonField(name) : Get(input, f).t = "string"

\* a call of the current turn on a catalogued tool that met a collaborator
\* failure or an unparseable JSON argument
Faulty(e) ==
  /\ e.name \in Catalogue
  /\ \/ e.failed # {}
     \/ UnparseableArgument(e.name, e.input)

\* C7 as stated: a collaborator failure or an unparseable JSON argument never
\* raises out of executeTool, and the payload returned carries an error
\* description.
C7_FaultsReportError ==
  \A i \in 1..Len(dispatchLog) :
    Faulty(dispatchLog[i]) => ReportsError(dispatchLog[i].out)

\* C7 amended: a collaborator failure or an unparseable JSON argument never
\* raises out of executeTool; the payload carries an error description unless
\* the only requests that failed are the index search and the index count of
\* the memory service, which findSimilarFixes and getStoredFixCount absorb.
C7_FaultsStayInPayload ==
  \A i \in 1..Len(dispatchLog) :
    LET e == dispatchLog[i] IN
      Faulty(e) =>
        /\ ~e.out.threw
        /\ e.out.val.t = "jsonstring"
        /\ (\/ UnparseableArgument(e.name, e.input)
            \/ ~(e.failed \subseteq {"redis.ftSearch", "redis.ftInfo"}))
             => ReportsError(e.out)

\* a turn of two calls, both faulty (one of them an unparseable argument),
\* has been answered and the loop goes on to the next request
C7_Witness ==
  /\ pc = "loop"
  /\ iteration < maxIterations
  /\ Len(dispatchLog) = 2
  /\ Faulty(dispatchLog[1]) /\ ReportsError(dispatchLog[1].out)
  /\ Faulty(dispatchLog[2]) /\ ReportsError(dispatchLog[2].out)
  /\ UnparseableArgument(dispatchLog[1].name, dispatchLog[1].input)
  /\ dispatchLog[2].failed # {}

\* the session stays as the unknown tool left it
AbortedByUnknownTool(i) ==
  /\ i = Len(dispatchLog)
  /\ dispatchLog[i].out.threw
  /\ pc = "error"
  /\ error = "Unknown tool"
  /\ result = Null
  /\ Len(toolResults) = i - 1
  /\ Len(messages) = 2 * iteration - 1
  /\ requests = iteration

\* C8: a tool call whose name is outside the catalogue aborts the session:
\* executeTool raises and heal propagates the error; no later call of the
\* batch is dispatched, no tool-result turn is appended, and no further
\* policy request is made.
C8_UnknownToolAborts ==
  /\ [](\A i \in 1..Len(dispatchLog) :
          dispatchLog[i].name \notin Catalogue => AbortedByUnknownTool(i))
  /\ [][pc = "error" => UNCHANGED vars]_vars

\* the unknown tool was the first of two calls, at the second turn
C8_Witness ==
  /\ pc = "error"
  /\ error = "Unknown tool"
  /\ iteration = 2
  /\ Len(dispatchLog) = 1
  /\ Len(CallIds(response.content)) = 2

\* C9: heal raises only when the policy request fails or when a tool with an
\* unknown name is dispatched; every call on a catalogued tool, whatever its
\* input and whatever the collaborators answer, returns a tool result.
C9_OnlyTwoAborts ==
  /\ pc = "error" =>
       \/ error = "Policy request failed" /\ dispatchLog = <<>>
       \/ /\ error = "Unknown tool"
          /\ dispatchLog # <<>>
          /\ dispatchLog[Len(dispatchLog)].name \notin Catalogue
  /\ \A i \in 1..Len(dispatchLog) :
       dispatchLog[i].name \in Catalogue =>
         /\ ~dispatchLog[i].out.threw
         /\ i <= Len(toolResults)
         /\ toolResults[i].content = dispatchLog[i].out.val

\* a turn with a missing resource and a collaborator failure was answered
\* and the session goes on
C9_Witness ==
  /\ pc = "loop"
  /\ iteration < maxIterations
  /\ Len(dispatchLog) = 2
  /\ dispatchLog[1].name = "update_postman_request"
  /\ Get(dispatchLog[1].out.val.v, "error") = Str("Request not found in collection")
  /\ ReportsError(dispatchLog[1].out)
  /\ dispatchLog[2].name = "store_fix"
  /\ "redis.hSet" \in dispatchLog[2].failed
  /\ ReportsError(dispatchLog[2].out)

\* C10: a call to a catalogued tool whose input breaks the declared schema (a
\* required field missing, or a field of the wrong type) returns a
\* structured error result and invokes no collaborator.
C10_ValidatedBeforeExecution ==
  (probe # NoProbe /\ probe.name \in Catalogue
     /\ ~SchemaValid(probe.name, probe.input)) =>
    /\ ReportsError(probe.out)
    /\ probe.out.calls = <<>>

(***************************************************************************)
(* Properties of the error classifier.                                     *)
(***************************************************************************)
Classified == probe # NoProbe /\ probe.name = "isFormatError"

\* the keyword test of the claims, made on the message as the caller sees it
MentionsFormatKeyword(message) ==
  \E keyword \in formatKeywords : includes(toLowerCase(message), keyword)

\* C11: the classifier answers true whenever the status code is 400 or 422,
\* and whenever the lower-cased message contains one of the seven format
\* keywords; either condition alone is enough.
C11_FormatErrorWhenStatusOrKeyword ==
  Classified =>
    /\ (probe.statusCode \in {400, 422} => probe.out = TRUE)
    /\ (MentionsFormatKeyword(probe.message) => probe.out = TRUE)

\* status 422 with a message without keyword, or a keyword in upper case with
\* a status that is not 400 or 422
C11_Witness ==
  /\ Classified
  /\ \/ probe.statusCode = 422 /\ probe.message = "Forbidden"
     \/ probe.statusCode = 404 /\ probe.message = "MALFORMED"
  /\ probe.out = TRUE

\* C12: the classifier answers false for every status code 401, 403 or
\* >= 500, also when the message contains a format keyword.
C12_AuthAndServerExcluded ==
  (Classified /\ (probe.statusCode \in {401, 403} \/ probe.statusCode >= 500))
    => probe.out = FALSE

(***************************************************************************)
(* Properties of the fix memory.                                           *)
(***************************************************************************)
\* the last request was a lookup
Found == probe.name = "findSimilarFixes"

ScoreOf(fix) == Get(fix, "score").v

\* C13: every fix a lookup returns has score <= maxDistance, for every k,
\* every threshold and every content of the cache.
C13_WithinMaxDistance ==
  (Found /\ ~probe.out.threw) =>
    \A i \in 1..Len(probe.out.val) : ScoreOf(probe.out.val[i]) <= probe.maxDistance

\* a lookup with threshold 0 over two fixes, one of them farther away: the
\* index hands back both and one is dropped
C13_Witness ==
  /\ Found
  /\ probe.failure = "none"
  /\ probe.k = 2
  /\ probe.maxDistance = 0
  /\ Cardinality(DOMAIN cache) = 2
  /\ \E key \in DOMAIN cache :
       L2Distance(cache[key].embedding,
                  Embedding(buildSearchText(probe.endpoint, probe.statusCode,
                                            probe.errorMessage))) > 0
  /\ Len(probe.out.val) = 1
  /\ ScoreOf(probe.out.val[1]) = 0

\* C14: the fixes a lookup returns are in ascending order of score, in
\* whatever order the index hands back its candidates.
C14_SortedByDistance ==
  (Found /\ ~probe.out.threw) =>
    \A i, j \in 1..Len(probe.out.val) :
      i < j => ScoreOf(probe.out.val[i]) <= ScoreOf(probe.out.val[j])

\* the lookup that follows a successful storeFix asks for the signature of
\* the fix just stored, and the embedder and the index answer it
StoreThenFind ==
  /\ probe.name = "storeFix"
  /\ ~probe.out.threw
  /\ probe'.name = "findSimilarFixes"
  /\ probe'.failure = "none"
  /\ probe'.endpoint = probe.entry.endpoint
  /\ probe'.statusCode = probe.entry.statusCode
  /\ probe'.errorMessage = probe.entry.errorMessage

\* the lookup returned the fix with distance 0 and its data unchanged
Returned(out, entry) ==
  \E i \in 1..Len(out.val) :
    LET fix == out.val[i] IN
      /\ ScoreOf(fix) = 0
      /\ Get(fix, "endpoint") = entry.endpoint
      /\ Get(fix, "method") = entry.method
      /\ Get(fix, "statusCode") = entry.statusCode
      /\ Get(fix, "errorMessage") = entry.errorMessage
      /\ Get(Get(fix, "fixApplied"), "type") = entry.fixType
      /\ Get(Get(fix, "fixApplied"), "description") = entry.fixDescription
      /\ Get(fix, "correctedRequest") = entry.correctedRequest

\* the fixes under other keys whose embedding is that of the entry
OthersAtDistanceZero(store, key) ==
  {o \in DOMAIN store \ {key} : store[o].embedding = store[key].embedding}

\* C15 as stated: after a successful storeFix, a lookup with the same
\* endpoint, status code and error message returns the stored fix with
\* distance 0 and its data unchanged, whatever else the cache holds.
C15_RoundTrip ==
  [][StoreThenFind => Returned(probe'.out, probe.entry)]_vars

\* C15: the same, for a lookup whose k is larger than the number of other
\* fixes in the cache with the same signature.
C15_RoundTripWithinK ==
  [][(StoreThenFind
        /\ probe'.k > Cardinality(OthersAtDistanceZero(cache, probe.key)))
       => Returned(probe'.out, probe.entry)]_vars

\* a lookup with k = 2 returned, both with distance 0, the fix stored last
\* and an older fix with the same signature
C15_Witness ==
  /\ Found
  /\ probe.failure = "none"
  /\ probe.k = 2
  /\ Len(probe.out.val) = 2
  /\ ScoreOf(probe.out.val[1]) = 0
  /\ ScoreOf(probe.out.val[2]) = 0
  /\ Get(probe.out.val[1], "method") # Get(probe.out.val[2], "method")
  /\ \E i \in 1..2 : Get(probe.out.val[i], "id") = Num(clock)

\* C16: a store never replaces the entry of an earlier store, and every
\* successful store adds one entry.
C16_StoresNeverOverwrite ==
  [][/\ \A key \in DOMAIN cache :
          key \in DOMAIN cache' /\ cache'[key] = cache[key]
     /\ (probe' # probe /\ probe'.name = "storeFix" /\ ~probe'.out.threw)
          => Cardinality(DOMAIN cache') = Cardinality(DOMAIN cache) + 1]_vars

\* C17: a lookup made while the embedder or the index is unavailable
\* returns the empty sequence and does not raise.
C17_UnavailableGivesNoMatches ==
  (Found /\ probe.failure # "none") =>
    /\ ~probe.out.threw
    /\ probe.out.val = <<>>

\* C18: a store that fails is not reported as success: storeFix raises, and
\* the store_fix tool returns success = false with an error description.
C18_StoreFailureSurfaces ==
  /\ (probe.name = "storeFix" /\ probe.failure # "none") => probe.out.threw
  /\ (probe.name = "store_fix" /\ probe.failure \in {"embedder", "redis.hSet"}) =>
       /\ ReportsError(probe.out)
       /\ Get(probe.out.val.v, "success") = Bool(FALSE)

\* the store_fix tool met a failing HSET while the cache held a fix
C18_Witness ==
  /\ probe.name = "store_fix"
  /\ probe.failure = "redis.hSet"
  /\ cache # <<>>
  /\ Get(probe.out.val.v, "success") = Bool(FALSE)

\* C20: a store_fix call whose corrected_request_json does not parse leaves
\* the cache as it was and returns success = false; the correctedRequest of
\* every entry of the cache parses.
C20_UnparseableFixNotStored ==
  /\ [](\A key \in DOMAIN cache : ~JsonParse(cache[key].correctedRequest).threw)
  /\ [][(probe' # probe /\ probe'.name = "store_fix"
           /\ UnparseableArgument("store_fix", probe'.input))
          => /\ cache' = cache
             /\ ReportsError(probe'.out)
             /\ Get(probe'.out.val.v, "success") = Bool(FALSE)]_vars

\* the call with unparseable JSON was made on a cache that holds a fix
C20_Witness ==
  /\ probe.name = "store_fix"
  /\ UnparseableArgument("store_fix", probe.input)
  /\ probe.failure = "none"
  /\ cache # <<>>
  /\ Get(probe.out.val.v, "success") = Bool(FALSE)

(***************************************************************************)
(* Properties of the index bootstrap.                                      *)
(***************************************************************************)
\* C19: when processes run connect() at the same time against a Redis
\* without index, all of them complete and the index exists once: no
\* connect() fails on the answer 'Index already exists'.
C19_BootstrapSafeToRace ==
  /\ \A p \in Procs : connPc[p] # "failed"
  /\ (\E p \in Procs : connPc[p] = "ready") => index

(***************************************************************************)
(* Properties of main().                                                   *)
(***************************************************************************)
\* connect() returned and the session ran to its end, by return or by raise
SessionEnded == pc \in {"done", "error"}

\* C21: on every exit path of main after the memory service connected (the
\* session returned a result, or the session raised), the connection has been
\* closed by disconnect() when the process ends.
C21_DisconnectBeforeExit == (mainPc = "exited" /\ SessionEnded) => ~connected

(***************************************************************************)
(* Properties of check_memory.                                             *)
(***************************************************************************)
\* the probe is a check_memory call whose query reached the cache
QueriedCache ==
  /\ probe.name = "check_memory"
  /\ "env" \in DOMAIN probe
  /\ \E i \in 1..Len(probe.out.calls) : probe.out.calls[i] = "redis.ftSearch"

\* the payload a call returned, undefined when it is not JSON text
PayloadOf(out) ==
  IF ~out.threw /\ out.val.t = "jsonstring" THEN out.val.v ELSE Undefined

C23_ResultShape ==
  (/\ probe.name = "check_memory"
   /\ "env" \in DOMAIN probe
   /\ ~ReportsError(probe.out)) =>
     /\ Get(PayloadOf(probe.out), "found").t = "boolean"
     /\ Get(PayloadOf(probe.out), "total_stored").t = "number"
     /\ (Get(PayloadOf(probe.out), "fixes") # Undefined)
          <=> (Get(PayloadOf(probe.out), "found") = Bool(TRUE))

\* distance of the stored entry key from the signature the probe looked up
DistanceOf(key) ==
  L2Distance(cache[key].embedding,
             Embedding(buildSearchText(probe.endpoint, probe.statusCode,
                                       probe.errorMessage)))

\* fewer than k stored entries are strictly nearer to the query than key is
AmongNearest(key, k) ==
  Cardinality({o \in DOMAIN cache : DistanceOf(o) < DistanceOf(key)}) < k

\* C24: a lookup returns at most k fixes, each of them one of the k stored
\* entries nearest to the query; entries within maxDistance that are not among
\* the k nearest are left out.
C24_AtMostKNearest ==
  (Found /\ ~probe.out.threw) =>
    /\ Len(probe.out.val) <= probe.k
    /\ \A i \in 1..Len(probe.out.val) :
         AmongNearest(Get(probe.out.val[i], "id").v, probe.k)

\* a lookup with k = 1 over two entries that both lie within maxDistance: one
\* fix comes back
C24_Witness ==
  /\ Found
  /\ probe.failure = "none"
  /\ probe.k = 1
  /\ Cardinality(DOMAIN cache) = 2
  /\ \A key \in DOMAIN cache : DistanceOf(key) <= probe.maxDistance
  /\ \E key \in DOMAIN cache : ~AmongNearest(key, 1)
  /\ Len(probe.out.val) = 1

(***************************************************************************)
(* Properties of the session's ending.                                     *)
(***************************************************************************)
\* C25: a session that ends with the success message has dispatched store_fix
\* after its successful update_postman_request.  Stated for the sessions that
\* end in their first turn, whose dispatchLog is the whole history of calls.
C25_SuccessHasStoredFix ==
  (pc = "done" /\ result = SuccessMessage /\ requests = 1) =>
    \E i, j \in 1..Len(dispatchLog) :
      /\ i < j
      /\ dispatchLog[i].name = "update_postman_request"
      /\ ReportsSuccess(dispatchLog[i].out)
      /\ dispatchLog[j].name = "store_fix"

(***************************************************************************)
(* Properties of update_postman_request.                                   *)
(***************************************************************************)
\* the HTTP method of a request item
MethodOf(item) == Get(Get(item, "request"), "method")

\* the probe is an update_postman_request call whose PUT went through
Updated ==
  /\ probe.name = "update_postman_request"
  /\ "env" \in DOMAIN probe
  /\ "collection" \in DOMAIN probe.out

\* C26: after any update_postman_request the method of the target request in
\* the stored collection equals its method before the update.
C26_MethodUnchanged ==
  Updated =>
    \A i \in 1..Len(Get(probe.out.collection, "item").v) :
      MethodOf(Get(probe.out.collection, "item").v[i]) = MethodOf(PostmanRequest)

\* C29: when the policy reports a stop reason that is neither end_turn nor
\* tool_use, heal returns 'Agent stopped unexpectedly.' on whichever iteration
\* that happens, the last one included; the max-iterations message is kept
\* for sessions whose turns were all tool-use turns.
C29_OtherStopIsUnexpected ==
  (pc = "done" /\ response.stop_reason \notin {"end_turn", "tool_use", "none"}) =>
    result = UnexpectedMessage

(***************************************************************************)
(* Properties of the transcript.                                           *)
(***************************************************************************)
\* every block of a content has this type
AllOfType(content, type) == \A i \in 1..Len(content) : content[i].type = type

\* one opening user turn, then (policy turn, tool-result turn) pairs
WellFormedTranscript ==
  /\ Len(messages) >= 1
  /\ Len(messages) % 2 = 1
  /\ messages[1] = [role |-> "user", content |-> <<[type |-> "text"]>>]
  /\ \A i \in 2..Len(messages) :
       IF i % 2 = 0
       THEN messages[i].role = "assistant"
       ELSE /\ messages[i].role = "user"
            /\ AllOfType(messages[i].content, "tool_result")

\* C27: the transcript starts with one user-authored opening turn followed by
\* (policy turn, tool-result turn) pairs in strict alternation; while the i-th
\* policy request is out its length is 1 + 2*(i-1); and no step changes or
\* removes a turn already present.
C27_TranscriptAlternates ==
  /\ [](WellFormedTranscript
         /\ (pc = "await" => Len(messages) = 1 + 2 * (requests - 1)))
  /\ [][/\ Len(messages') >= Len(messages)
         /\ SubSeq(messages', 1, Len(messages)) = messages]_vars

\* the second policy request is out: the transcript holds the opening turn
\* and one pair
C27_Witness ==
  /\ pc = "await"
  /\ requests = 2
  /\ Len(messages) = 3
  /\ messages[2].role = "assistant"
  /\ messages[3].role = "user"

\* C28: heal returns the success message from a tool-use turn only if the last
\* call of the finished batch was update_postman_request with success = true;
\* a batch that ends otherwise (a successful update followed by another call,
\* an update with success = false) leaves the result unset and takes the loop
\* back to its head for the next policy turn.
C28_SuccessOnlyAfterLastUpdate ==
  /\ []((pc = "done" /\ response.stop_reason = "tool_use" /\ result = SuccessMessage)
           => LastIsSuccessfulUpdate)
  /\ [][(pc = "dispatch" /\ pc' \notin {"dispatch", "error"}
           /\ ~LastIsSuccessfulUpdate')
          => (pc' = "loop" /\ result' = result /\ result = Null)]_vars

\* a batch of two calls whose first is a successful update has been
\* dispatched, and the loop is back at its head
C28_Witness ==
  /\ pc = "loop"
  /\ BatchDone
  /\ Len(dispatchLog) = 2
  /\ dispatchLog[1].name = "update_postman_request"
  /\ ReportsSuccess(dispatchLog[1].out)
  /\ result = Null

\* a call of the current turn in which updateRequest did not find the target
NotFound(e) ==
  /\ e.name = "update_postman_request"
  /\ Get(PayloadOf(e.out), "error") = Str("Request not found in collection")

\* C30: when the target request is not in the collection, updateRequest sends
\* no PUT and nothing is stored, the tool returns success = false with the
\* error, and a batch ending with that call does not end the session with
\* success: the loop is back at its head (and may then run out of turns).
C30_NotFoundSendsNoPut ==
  \A i \in 1..Len(dispatchLog) :
    NotFound(dispatchLog[i]) =>
      /\ \A j \in 1..Len(dispatchLog[i].out.calls) :
           dispatchLog[i].out.calls[j] # "postman.put"
      /\ "collection" \notin DOMAIN dispatchLog[i].out
      /\ Get(PayloadOf(dispatchLog[i].out), "success") = Bool(FALSE)
      /\ (BatchDone /\ i = Len(dispatchLog)) =>
           \/ pc = "loop" /\ result = Null /\ Len(messages) = 2 * iteration + 1
           \/ pc = "done" /\ result = MaxIterationsMessage

\* the update that ends the first batch did not find its target, and the loop
\* is back at its head for the second policy turn
C30_Witness ==
  /\ pc = "loop"
  /\ iteration = 1
  /\ BatchDone
  /\ NotFound(dispatchLog[Len(dispatchLog)])
  /\ dispatchLog[Len(dispatchLog)].out.calls = <<"postman.get">>

(***************************************************************************)
(* Properties of execute_api_request.                                      *)
(***************************************************************************)
\* the probe is an execute_api_request call whose argument parsed
Executed ==
  /\ probe.name = "execute_api_request"
  /\ "env" \in DOMAIN probe
  /\ ~JsonParse(Get(probe.input, "request_json")).threw

\* the HTTP request of the probe was sent
Sent == \E i \in 1..Len(probe.out.calls) : probe.out.calls[i] = "http"

\* C34: for every execution that receives a response, success is true only
\* for a 2xx status and isFormatError is the classifier's verdict on the
\* status, so a 400 response gives success = false and isFormatError = true.
C34_StatusDecidesResult ==
  (Executed /\ Sent /\ probe.env.http # 0) =>
    /\ (Get(PayloadOf(probe.out), "success") = Bool(TRUE))
         <=> (probe.env.http \in 200..299)
    /\ Get(PayloadOf(probe.out), "isFormatError")
         = Bool(isFormatError(probe.env.http, ""))

\* C36: executePostmanRequest never raises; for a request object without a
\* request or url property and for a network failure without a response the
\* result has success = false and statusCode = 0.
C36_ExecutorNeverRaises ==
  Executed =>
    /\ ~probe.out.threw
    /\ Get(PayloadOf(probe.out), "statusCode").t = "number"
    /\ (~Sent \/ probe.env.http = 0) =>
         /\ Get(PayloadOf(probe.out), "success") = Bool(FALSE)
         /\ Get(PayloadOf(probe.out), "statusCode") = Num(0)
         /\ Get(PayloadOf(probe.out), "error") # Undefined

\* an object without a request property was handed to the executor
C36_Witness ==
  /\ Executed
  /\ JsonParse(Get(probe.input, "request_json")).val = BareObject
  /\ ~Sent
  /\ Get(PayloadOf(probe.out), "statusCode") = Num(0)

(***************************************************************************)
(* Properties of updateRequest on a collection.                            *)
(***************************************************************************)
\* an item without its children
Shallow(item) == Obj([f \in DOMAIN item.v \ {"item"} |-> item.v[f]])

\* the items of a collection in depth-first order, parents before children,
\* each with its depth and the number of its children
RECURSIVE Flatten(_, _)
Flatten(items, depth) ==
  LET F[i \in 0..Len(items.v)] ==
        IF i = 0 THEN <<>>
        ELSE LET it == items.v[i] IN
               F[i - 1]
                 \o <<[depth |-> depth,
                       children |-> IF IsFolder(it) THEN Len(Get(it, "item").v) ELSE 0,
                       item |-> Shallow(it)]>>
                 \o (IF IsFolder(it) THEN Flatten(Get(it, "item"), depth + 1) ELSE <<>>)
  IN F[Len(items.v)]

ItemsOf(collection) == Flatten(Get(Get(collection, "collection"), "item"), 0)

\* what session s fetched and what it sent back, item by item
Before(s) == ItemsOf(fetched[s])

After(s) == Flatten(Get(pmCall[s].out.collection, "item"), 0)

\* positions of the fetched items whose id is id
Matches(s, id) == {i \in 1..Len(Before(s)) : StrictEquals(Get(Before(s)[i].item, "id"), id)}

\* the first of a set of positions
First(S) == CHOOSE i \in S : \A j \in S : i <= j

\* the collection sent back is the fetched one with updatedRequest merged
\* into the item at position k and nothing else changed
OnlyChanged(s, k) ==
  /\ Len(After(s)) = Len(Before(s))
  /\ \A i \in 1..Len(Before(s)) :
       After(s)[i] = IF i = k
                     THEN [Before(s)[i] EXCEPT
                             !.item = Spread(@, pmCall[s].updatedRequest)]
                     ELSE Before(s)[i]
  /\ Get(pmCall[s].out.collection, "info")
       = Get(Get(fetched[s], "collection"), "info")

\* session s has finished its updateRequest call
Finished(s) == pmPc[s] \in {"done", "failed"}

\* what getRequest answers for the id of session s on the collection it fetched
Resolved(s) ==
  getRequest(Str("col-1"), pmCall[s].requestId, [EnvOk EXCEPT !.collection = fetched[s]])

\* C31: whenever getRequest returns an item for an id, updateRequest with
\* that id does not fail and updates exactly that item, ids of six segments
\* included.
C31_SameResolution ==
  \A s \in Sessions :
    (Finished(s) /\ ~Resolved(s).threw /\ Resolved(s).val # Null) =>
      /\ pmPc[s] = "done"
      /\ OnlyChanged(s, First({i \in 1..Len(Before(s)) :
                                Before(s)[i].item = Shallow(Resolved(s).val)}))

\* C32: when two sessions update two different requests and their calls
\* interleave, the stored collection holds both updates once both calls
\* have completed.
C32_NoLostUpdate ==
  (/\ \A s \in Sessions : pmPc[s] = "done"
   /\ Normalized(pmCall["a"].requestId) # Normalized(pmCall["b"].requestId)) =>
    \A s \in Sessions :
      \E i \in 1..Len(ItemsOf(stored)) :
        LET item == ItemsOf(stored)[i].item
            updatedRequest == pmCall[s].updatedRequest
        IN /\ StrictEquals(Get(item, "id"), Normalized(pmCall[s].requestId))
           /\ \A f \in DOMAIN updatedRequest.v : Get(item, f) = updatedRequest.v[f]

\* C33: updateRequest changes only the first item, depth-first, whose id is
\* the resolved request id; every other item and the collection info are
\* sent back as they were fetched.
C33_OnlyFirstMatchChanged ==
  \A s \in Sessions :
    pmPc[s] = "done" =>
      /\ Matches(s, Normalized(pmCall[s].requestId)) # {}
      /\ OnlyChanged(s, First(Matches(s, Normalized(pmCall[s].requestId))))

\* an update of an id that two items carry, the first of them inside a folder
C33_Witness ==
  \E s \in Sessions :
    /\ pmPc[s] = "done"
    /\ Cardinality(Matches(s, Normalized(pmCall[s].requestId))) = 2
    /\ Before(s)[First(Matches(s, Normalized(pmCall[s].requestId)))].depth = 1
    /\ After(s) # Before(s)

(***************************************************************************)
(* Properties of two heal calls on one agent.                              *)
(***************************************************************************)
\* the transcript session s hands to the policy
TranscriptOf(s) == frames[Frame(s)].messages

\* C35: two interleaved heal calls share no session state: while a policy
\* request of a session is out, the transcript it passed holds that session's
\* opening turn followed by its own policy turns and tool results, one pair
\* per earlier iteration, and its iteration count is the number of requests
\* it has issued itself.
C35_SessionsShareNothing ==
  \A s \in Sessions :
    healPc[s] = "await" =>
      /\ frames[Frame(s)].iteration = asked[s]
      /\ Len(TranscriptOf(s)) = 2 * asked[s] - 1
      /\ TranscriptOf(s)[1] = OpeningTurn(s)
      /\ \A i \in 1..Len(TranscriptOf(s)) : TranscriptOf(s)[i].session = s
      /\ \A i \in 2..Len(TranscriptOf(s)) : TranscriptOf(s)[i].turn = i \div 2

\* both calls have a policy request out, each in its second iteration
C35_Witness ==
  /\ \A s \in Sessions : healPc[s] = "await" /\ asked[s] = 2
  /\ Len(frames["a"].messages) = 3
  /\ Len(frames["b"].messages) = 3

====
